---- MODULE Spec2Model ----
(***************************************************************************)
(* Verification model of the rfsim numerical core (Gjild/rfsim):           *)
(*   - core/topology/netlist_graph.py   NetlistGraph          (SpecGraph)  *)
(*   - core/parameters/resolver.py      resolve               (SpecResolve)*)
(*   - simulator.py, core/stamping/*    run_sweep and workers (SpecSweep)  *)
(*   - core/validation.py              validate_circuit_structure, called *)
(*                                      by main()             (SpecSweep)  *)
(*   - core/stamping/matrix_builder.py  MatrixBuilder        (SpecPattern) *)
(*   - evaluation/sweep.py              the legacy sweep      (SpecLegacy)  *)
(*   - symbolic/*                       resolve_all_parameters (SpecSymbolic)*)
(*   - frontend/*                       SimulationController (SpecFrontend)*)
(* Each subsystem has its own specification over its own variables; the    *)
(* variables of the other subsystems stay at their initial values.         *)
(***************************************************************************)
EXTENDS Integers, Sequences, FiniteSets, TLC

VARIABLES
    nets,               \* NetlistGraph._nets: set of net names
    connections,        \* NetlistGraph._connections: list of PortConnection
    node_index_cache,   \* NetlistGraph._node_index: a map, or None
    ret,                \* what the last call on the graph returned (a map, or None)
    ret_arg,            \* the ground_net argument of that call, if it was node_index
    param_dict,         \* resolver: the mapping handed to resolve (mutated by it)
    resolve_arg,        \* resolver: the mapping as it was when the last call began
    outcome,            \* resolver: what the last resolve call returned or raised
    calls,              \* resolver: number of resolve calls made
    circuit,            \* sweep: the CircuitModel handed to run_sweep
    sweep_config,       \* sweep: SweepConfig.sweep, a list of SweepEntry
    pc,                 \* sweep: where the run is: main, rejected, start, raised,
                        \*        KeyError, sweeping, cancelled, done
    static_pkg,         \* sweep: the StaticPackage exported by the MatrixBuilder
    tasks,              \* sweep: the task list of MatrixBuilder.sweep
    next_task,          \* sweep: the next task the pool hands to a worker
    workers,            \* sweep: per worker process its task and its _LU_FACTOR_CACHE
    futures,            \* sweep: per task the (entry, error) a worker returned, and
                        \*        the cache lookup build_global_Y made for it
    yielded,            \* sweep: number of results the executor.map iterator has yielded
    entries,            \* sweep: results, the entries of the SweepResult
    errors,             \* sweep: errors, the messages of the SweepResult
    assembly,           \* builder: what the last build_global_Y call computed
    legacy,             \* evaluation.sweep.sweep: its locals and where it is
    symbolic,           \* symbolic: a resolve_all_parameters call, argument and outcome
    frontend            \* frontend: the StateManager fields and the simulation threads

graphVars == <<nets, connections, node_index_cache, ret, ret_arg>>
resolveVars == <<param_dict, resolve_arg, outcome, calls>>
sweepVars == <<circuit, sweep_config, pc, static_pkg, tasks, next_task, workers,
               futures, yielded, entries, errors>>
patternVars == <<assembly>>
otherVars == <<legacy, symbolic, frontend>>
vars == <<graphVars, resolveVars, sweepVars, patternVars, otherVars>>

\* The state of the sweep driver when no sweep is under way.
SweepIdle ==
    /\ circuit = [name |-> "none"]
    /\ sweep_config = <<>>
    /\ pc = "idle"
    /\ static_pkg = [ground_net |-> "None"]
    /\ tasks = <<>>
    /\ next_task = 1
    /\ workers = <<>>
    /\ futures = <<>>
    /\ yielded = 0
    /\ entries = <<>>
    /\ errors = <<>>

\* No build_global_Y call has been made.
NoAssembly == [done |-> FALSE]
PatternIdle == assembly = NoAssembly
\* no call made of the legacy sweep, of the symbolic resolver, of the frontend
NotCalled == [pc |-> "idle"]
OthersIdle == legacy = NotCalled /\ symbolic = NotCalled /\ frontend = NotCalled

(***************************************************************************)
(* Generic helpers                                                         *)
(***************************************************************************)
Range(s) == {s[i] : i \in DOMAIN s}

\* All orderings of a finite set, as sequences without repetition.
Orderings(S) ==
    {s \in [1..Cardinality(S) -> S] : \A i, j \in DOMAIN s : i # j => s[i] # s[j]}

\* The element of a one-element set. Only({e(v) : v \in {x}}) is e(x) with x
\* computed once, however often e uses it.
Only(S) == CHOOSE x \in S : TRUE

\* Python's list.remove(x): drops the first element equal to x.
RECURSIVE RemoveFirst(_, _)
RemoveFirst(s, x) ==
    IF s = <<>> THEN <<>>
    ELSE IF Head(s) = x THEN Tail(s)
    ELSE <<Head(s)>> \o RemoveFirst(Tail(s), x)

\* The state of the resolver when no mapping is under resolution.
NoOutcome == [status |-> "none", resolved |-> [n \in {"R", "a_val", "b_val", "s"} |-> -1], order |-> <<>>]
ResolveIdle ==
    /\ param_dict = <<>>
    /\ resolve_arg = <<>>
    /\ outcome = NoOutcome
    /\ calls = 0

(***************************************************************************)
(* NetlistGraph (core/topology/netlist_graph.py)                           *)
(***************************************************************************)
MaxConns == 3

None == "None"

\* Net names of the model, listed in lexicographic order of the strings
\* ("GND" < "gnd" < "n1" < "n2" < "p1" < "p2"); str comparison is modelled by
\* the position here.
NetNames == <<"GND", "gnd", "n1", "n2", "p1", "p2">>
NetSet == Range(NetNames)
StrRank(n) == CHOOSE i \in DOMAIN NetNames : NetNames[i] = n

ComponentIds == {"X1", "X2", "X3"}
PortNames == {"1", "2"}
\* PortConnection(component_id, port_name, net_name)
PortConnection == ComponentIds \X PortNames \X NetSet
\* The connections the graph operations are tried with.
GraphConnections == {"X1"} \X PortNames \X {"gnd", "n1", "p1"}
net_name(c) == c[3]

\* sorted(S) / list.sort() on net names
SortedNets(S) == SelectSeq(NetNames, LAMBDA n : n \in S)

\* {net: idx for idx, net in enumerate(lst)}; a net that is no key maps to -1
Enumerate(lst) ==
    [n \in NetSet |->
        IF n \in Range(lst) THEN (CHOOSE i \in DOMAIN lst : lst[i] = n) - 1 ELSE -1]

NoMap == [n \in NetSet |-> -1]
Keys(m) == {n \in NetSet : m[n] # -1}

\* Optional[Dict[str, int]]: None, or a dict
NoneMap == [some |-> FALSE, map |-> NoMap]
Some(m) == [some |-> TRUE, map |-> m]

\* The maps node_index can compute when nothing is cached. list(self._nets)
\* iterates a set of str, whose order depends on the process's string hashes:
\* any order of the nets can come out. With a ground net present the list is
\* used as it is (ground moved to the front); without, it is sorted.
ComputeNodeIndex(S, ground_net) ==
    IF ground_net # None /\ ground_net \in S
    THEN {Enumerate(<<ground_net>> \o rest) : rest \in Orderings(S \ {ground_net})}
    ELSE {Enumerate(SortedNets(S))}

add_connection(c) ==
    /\ Len(connections) < MaxConns
    /\ nets' = nets \cup {net_name(c)}
    /\ connections' = Append(connections, c)
    /\ node_index_cache' = NoneMap
    /\ ret' = NoneMap
    /\ ret_arg' = None
    /\ UNCHANGED <<resolveVars, sweepVars, patternVars, otherVars>>

\* remove_connection without the rebuild of _nets from the remaining
\* connections.
remove_connection_keep_nets(c) ==
    /\ c \in Range(connections)
    /\ connections' = RemoveFirst(connections, c)
    /\ nets' = nets
    /\ node_index_cache' = NoneMap
    /\ ret' = NoneMap
    /\ ret_arg' = None
    /\ UNCHANGED <<resolveVars, sweepVars, patternVars, otherVars>>

\* A connection that is not held raises KeyError and changes nothing.
remove_connection(c) ==
    /\ c \in Range(connections)
    /\ connections' = RemoveFirst(connections, c)
    /\ nets' = {net_name(x) : x \in Range(connections')}
    /\ node_index_cache' = NoneMap
    /\ ret' = NoneMap
    /\ ret_arg' = None
    /\ UNCHANGED <<resolveVars, sweepVars, patternVars, otherVars>>

node_index(ground_net) ==
    /\ IF node_index_cache.some
       THEN node_index_cache' = node_index_cache
       ELSE \E m \in ComputeNodeIndex(nets, ground_net) : node_index_cache' = Some(m)
    /\ ret' = node_index_cache'
    /\ ret_arg' = ground_net
    /\ UNCHANGED <<nets, connections>>
    /\ UNCHANGED <<resolveVars, sweepVars, patternVars, otherVars>>

\* dimension(): len(self._nets)
dimension == Cardinality(nets)

GraphInit ==
    /\ nets = {}
    /\ connections = <<>>
    /\ node_index_cache = NoneMap
    /\ ret = NoneMap
    /\ ret_arg = None

GraphNext ==
    \/ \E c \in GraphConnections : add_connection(c)
    \/ \E c \in GraphConnections : remove_connection(c)
    \/ \E g \in {"gnd", "n1", "p1", None} : node_index(g)

\* a new graph; no resolve call and no sweep under way
InitGraph == GraphInit /\ ResolveIdle /\ SweepIdle /\ PatternIdle /\ OthersIdle

SpecGraph ==
    InitGraph /\ [][GraphNext]_vars

(***************************************************************************)
(* Parameter resolver (core/parameters/resolver.py)                        *)
(*                                                                         *)
(* A mapping is an insertion-ordered dict: a sequence of [key, expr].      *)
(* A value is a number, a string or a parsed sympy expression:             *)
(*   [kind |-> "num",  form |-> "num",  k |-> n, refs |-> {}]    n         *)
(*   [kind |-> "str",  form |-> "prod", k |-> n, refs |-> R]  "n*r1*r2"    *)
(*   [kind |-> "str",  form |-> "sum",  k |-> n, refs |-> R]  "r1 + r2 + n"*)
(*   [kind |-> "str",  form |-> "bad",  ...]                  "2 +* 3"     *)
(*   [kind |-> "expr", form |-> "prod" | "sum", ...]   as parsed by sympy  *)
(* with n >= 1 (sympy does not cancel the identifiers away).               *)
(***************************************************************************)
MaxRefs == 2
MaxCalls == 2

\* Parameter names that can be keys; "s" is also the name of a pint unit.
ParamNames == {"R", "a_val", "b_val", "s"}
\* The keys of the mappings resolve is tried on.
MappingKeys == {"a_val", "b_val", "s"}
\* Identifiers an expression can mention; "x_val" is never bound.
Identifiers == MappingKeys \cup {"x_val"}
\* Names ureg.Quantity knows as units (the second).
UnitNames == {"s"}

Num(n) == [kind |-> "num", form |-> "num", k |-> n, refs |-> {}]
\* a value that is neither a number, a string nor a sympy expression (a dict)
DictValue == [kind |-> "dict", form |-> "dict", k |-> 0, refs |-> {}]
Str(f, n, R) == [kind |-> "str", form |-> f, k |-> n, refs |-> R]

RefSets == {R \in SUBSET Identifiers : Cardinality(R) <= MaxRefs}
ExprChoices ==
    {Num(1), Str("bad", 1, {})}
    \cup {Str("prod", 2, R) : R \in {{}, {"s"}, {"a_val"}}}
    \cup {Str("sum", 1, R) : R \in RefSets \ {{}}}

KeysOf(pd) == [i \in DOMAIN pd |-> pd[i].key]
KeySet(pd) == {pd[i].key : i \in DOMAIN pd}
Lookup(pd, key) == pd[CHOOSE i \in DOMAIN pd : pd[i].key = key].expr

\* The elements of the set S in the order in which this process iterates a
\* set of str (hash order): the order they have in the sequence ord.
RECURSIVE IterSet(_, _)
IterSet(S, ord) ==
    IF ord = <<>> THEN <<>>
    ELSE IF Head(ord) \in S THEN <<Head(ord)>> \o IterSet(S, Tail(ord))
    ELSE IterSet(S, Tail(ord))

\* ureg.Quantity(expr) succeeds: an arithmetic expression all of whose
\* identifiers are units, of one dimension ("2", "2*s"; not "s + 1", which
\* adds a number to a time, nor anything naming a non-unit).
QuantityParses(e) == e.form = "prod" /\ e.refs \subseteq UnitNames
\* float(qty.to_base_units().magnitude): the units of the model are base units
QuantityMagnitude(e) == e.k
\* safe_math.parse_expr (sympify) succeeds
SympifyParses(e) == e.form \in {"prod", "sum"}

\* _build_dependency_graph: walks the mapping in insertion order, replaces
\* strings by their parsed form in the mapping itself, raises on the first
\* value it cannot handle. graph[key] = deps.
RECURSIVE BuildFrom(_, _, _)
BuildFrom(pd, i, graph) ==
    IF i > Len(pd) THEN [raised |-> FALSE, graph |-> graph, param_dict |-> pd]
    ELSE
    LET key == pd[i].key
        e == pd[i].expr
        symdeps == {n \in e.refs : n # key /\ n \in KeySet(pd)}
    IN  IF e.kind = "num"
        THEN BuildFrom(pd, i + 1, [graph EXCEPT ![key] = {}])
        ELSE IF e.kind = "dict"
        THEN [raised |-> TRUE, graph |-> graph, param_dict |-> pd]
        ELSE IF e.kind = "str" /\ QuantityParses(e)
        THEN BuildFrom([pd EXCEPT ![i].expr = Num(QuantityMagnitude(e))], i + 1,
                       [graph EXCEPT ![key] = {}])
        ELSE IF e.kind = "str" /\ ~SympifyParses(e)
        THEN [raised |-> TRUE, graph |-> graph, param_dict |-> pd]
        ELSE BuildFrom([pd EXCEPT ![i].expr.kind = "expr"], i + 1,
                       [graph EXCEPT ![key] = symdeps])

\* Variant of build_dependency_graph: a name counts as a dependency only if
\* its key was inserted before (name in graph, not name in param_dict).
build_dependency_graph_seen(pd) ==
    LET b == BuildFrom(pd, 1, [n \in KeySet(pd) |-> {}])
        at(n) == CHOOSE i \in DOMAIN pd : pd[i].key = n
    IN  [b EXCEPT !.graph = [n \in DOMAIN b.graph |->
                                {d \in b.graph[n] : at(d) < at(n)}]]

build_dependency_graph(pd) == BuildFrom(pd, 1, [n \in KeySet(pd) |-> {}])

\* for dependent in reverse_map[n]: in_degree[dependent] -= 1; queue.append
RECURSIVE VisitDependents(_, _, _)
VisitDependents(ds, in_degree, queue) ==
    IF ds = <<>> THEN [in_degree |-> in_degree, queue |-> queue]
    ELSE LET d == Head(ds)
             deg == [in_degree EXCEPT ![d] = @ - 1]
         IN  VisitDependents(Tail(ds), deg,
                             IF deg[d] = 0 THEN Append(queue, d) ELSE queue)

RECURSIVE KahnLoop(_, _, _, _, _)
KahnLoop(queue, sorted_list, in_degree, reverse_map, ord) ==
    IF queue = <<>> THEN sorted_list
    ELSE LET n == Head(queue)
             v == VisitDependents(IterSet(reverse_map[n], ord), in_degree, Tail(queue))
         IN  KahnLoop(v.queue, Append(sorted_list, n), v.in_degree, reverse_map, ord)

\* Variant of topological_sort: the keys in insertion order.
topological_sort_unsorted(keys, graph, ord) == [raised |-> FALSE, order |-> keys]

\* _topological_sort(graph); keys is the insertion order of graph
topological_sort(keys, graph, ord) ==
    LET nodes == Range(keys)
        in_degree == [n \in nodes |-> Cardinality(graph[n])]
        reverse_map == [n \in nodes |-> {m \in nodes : n \in graph[m]}]
        queue == SelectSeq(keys, LAMBDA n : in_degree[n] = 0)
        sorted_list == KahnLoop(queue, <<>>, in_degree, reverse_map, ord)
    IN  [raised |-> Len(sorted_list) # Cardinality(nodes), order |-> sorted_list]

RECURSIVE SumOver(_, _)
SumOver(S, f) == IF S = {} THEN 0 ELSE LET x == CHOOSE y \in S : TRUE IN f[x] + SumOver(S \ {x}, f)
RECURSIVE ProdOver(_, _)
ProdOver(S, f) == IF S = {} THEN 1 ELSE LET x == CHOOSE y \in S : TRUE IN f[x] * ProdOver(S \ {x}, f)

NoValue == -1
Unresolved == [n \in ParamNames |-> NoValue]
ResolvedKeys(resolved) == {n \in ParamNames : resolved[n] # NoValue}

\* float(expr.evalf(subs=resolved)): fails when an identifier has no value
EvalfFails(e, resolved) == ~(e.refs \subseteq ResolvedKeys(resolved))
Evalf(e, resolved) ==
    IF e.form = "sum" THEN e.k + SumOver(e.refs, resolved)
    ELSE e.k * ProdOver(e.refs, resolved)

\* the evaluation loop of resolve over the sorted keys
RECURSIVE EvalFrom(_, _, _, _)
EvalFrom(pd, order, i, resolved) ==
    IF i > Len(order) THEN [raised |-> FALSE, resolved |-> resolved]
    ELSE LET key == order[i]
             e == Lookup(pd, key)
         IN  IF e.kind = "num"
             THEN EvalFrom(pd, order, i + 1, [resolved EXCEPT ![key] = e.k])
             ELSE IF e.kind = "str"
             THEN [raised |-> TRUE, resolved |-> resolved]
             ELSE IF EvalfFails(e, resolved)
             THEN [raised |-> TRUE, resolved |-> resolved]
             ELSE EvalFrom(pd, order, i + 1, [resolved EXCEPT ![key] = Evalf(e, resolved)])

\* resolve(param_dict): status "ok" with the values, or "ParameterError";
\* param_dict is the mapping as the call leaves it, order the sorted keys.
resolve(pd, ord) ==
    LET b == build_dependency_graph(pd)
        t == topological_sort(KeysOf(pd), b.graph, ord)
        r == EvalFrom(b.param_dict, t.order, 1, Unresolved)
    IN  IF b.raised
        THEN [status |-> "ParameterError", resolved |-> Unresolved, order |-> <<>>,
              param_dict |-> b.param_dict]
        ELSE IF t.raised \/ r.raised
        THEN [status |-> "ParameterError", resolved |-> Unresolved,
              order |-> IF t.raised THEN <<>> ELSE t.order, param_dict |-> b.param_dict]
        ELSE [status |-> "ok", resolved |-> r.resolved, order |-> t.order,
              param_dict |-> b.param_dict]

\* The mappings of the model: every sequence of distinct keys, every choice
\* of value per key.
KeySeqs == UNION {Orderings(K) : K \in SUBSET MappingKeys}

ResolveInit ==
    /\ \E ks \in KeySeqs : \E es \in [DOMAIN ks -> ExprChoices] :
            param_dict = [i \in DOMAIN ks |-> [key |-> ks[i], expr |-> es[i]]]
    /\ resolve_arg = <<>>
    /\ outcome = NoOutcome
    /\ calls = 0

\* A call resolve(param_dict) in a process with set iteration order ord.
CallResolve ==
    /\ calls < MaxCalls
    /\ \E ord \in Orderings(KeySet(param_dict)) :
        LET r == resolve(param_dict, ord)
        IN  /\ outcome' = [status |-> r.status, resolved |-> r.resolved, order |-> r.order]
            /\ param_dict' = r.param_dict
    /\ resolve_arg' = param_dict
    /\ calls' = calls + 1
    /\ UNCHANGED <<graphVars, sweepVars, patternVars, otherVars>>

ResolveNext == CallResolve

\* a mapping to resolve; an empty graph and no sweep under way
InitResolve == ResolveInit /\ GraphInit /\ SweepIdle /\ PatternIdle /\ OthersIdle

SpecResolve == InitResolve /\ [][ResolveNext]_vars

(***************************************************************************)
(* Circuit model (core/inout/netlist.py) and components                    *)
(***************************************************************************)
\* Conductances are integers in units of 1/GUnit siemens, so that G = 1/R is
\* exact for the resistances of the model (the divisors of GUnit).
GUnit == 12

\* complex numbers as <<re, im>>
Cx(re) == <<re, 0>>
CxAdd(a, b) == <<a[1] + b[1], a[2] + b[2]>>

FixedPortImpedance(v) == [type |-> "fixed", value |-> v, names |-> {}]
\* a freq_dep impedance whose function mentions the parameters `names`
FrequencyDependentPortImpedance(N) == [type |-> "freq_dep", value |-> 0, names |-> N]

Resistor(id, params) ==
    [id |-> id, type |-> "resistor", ports |-> <<"1", "2">>, params |-> params]

Bind(key, e) == [key |-> key, expr |-> e]

\* p1 -X1- n1 -X2- n2 -X3- p2: two internal nets between two ports
Ladder ==
    [name |-> "ladder",
     components |-> <<Resistor("X1", <<Bind("R", Num(1))>>),
                      Resistor("X2", <<Bind("R", Num(1))>>),
                      Resistor("X3", <<Bind("R", Num(2))>>)>>,
     external_ports |-> <<[name |-> "P1", net_name |-> "p1", impedance |-> FixedPortImpedance(50)],
                          [name |-> "P2", net_name |-> "p2", impedance |-> FixedPortImpedance(50)]>>,
     connections |-> << <<"X1", "1", "p1">>, <<"X1", "2", "n1">>,
                        <<"X2", "1", "n1">>, <<"X2", "2", "n2">>,
                        <<"X3", "1", "n2">>, <<"X3", "2", "p2">> >>]

\* p1 -X1- p2 and, not connected to it, n1 -X2- n2: the internal block is
\* singular at every point
Floating ==
    [name |-> "floating",
     components |-> <<Resistor("X1", <<Bind("R", Num(1))>>),
                      Resistor("X2", <<Bind("R", Num(2))>>)>>,
     external_ports |-> <<[name |-> "P1", net_name |-> "p1", impedance |-> FixedPortImpedance(50)],
                          [name |-> "P2", net_name |-> "p2", impedance |-> FixedPortImpedance(50)]>>,
     connections |-> << <<"X1", "1", "p1">>, <<"X1", "2", "p2">>,
                        <<"X2", "1", "n1">>, <<"X2", "2", "n2">> >>]

\* the ladder with a port impedance that is a function of a_val
LadderZ ==
    [Ladder EXCEPT !.name = "ladder_z",
                   !.external_ports[2].impedance = FrequencyDependentPortImpedance({"a_val"})]

\* ResistorComponent.get_ymatrix: raises ParameterError without R or with
\* R == 0, else [[G, -G], [-G, G]] with G = 1/R, flattened row-major.
ResistorRaises(params) == params["R"] = NoValue \/ params["R"] = 0
ResistorY(params) ==
    LET G == GUnit \div params["R"]
    IN  <<Cx(G), Cx(-G), Cx(-G), Cx(G)>>

\* SubcircuitComponent: its ports are the keys of the interface mapping,
\* interface_map[k] is the inner net of port k; the nested model is loaded
\* and its StaticPackage compiled in __init__. Its params hold the file name
\* and the mapping itself, which is a dict (whatever resolve makes of the
\* file name, met first, the mapping is a value it rejects).
Subcircuit(id, nested, ports, interface_map, static) ==
    [id |-> id, type |-> "subcircuit", ports |-> ports,
     params |-> <<Bind("mapping", DictValue)>>,
     nested_model |-> nested, interface_map |-> interface_map, static_pkg |-> static]

\* dict.update: a key already present keeps its place and takes the new
\* value, a new key is appended
RECURSIVE Update(_, _)
Update(pd, other) ==
    IF other = <<>> THEN pd
    ELSE LET b == Head(other)
         IN  Update(IF b.key \in KeySet(pd)
                    THEN [i \in DOMAIN pd |-> IF pd[i].key = b.key THEN b ELSE pd[i]]
                    ELSE Append(pd, b),
                    Tail(other))

RECURSIVE UpdateAll(_, _)
UpdateAll(pd, comps) ==
    IF comps = <<>> THEN pd ELSE UpdateAll(Update(pd, Head(comps).params), Tail(comps))

\* get_ymatrix of the components that are no subcircuits
PlainRaises(comp, freq, params) == ResistorRaises(params)
PlainY(comp, freq, params) == ResistorY(params)

\* PortImpedance.get_impedance(freq, params)
get_impedance_raises(imp, params) ==
    imp.type = "freq_dep" /\ ~(imp.names \subseteq ResolvedKeys(params))
get_impedance(imp, freq, params) ==
    IF imp.type = "fixed" THEN imp.value ELSE SumOver(imp.names, params)

(***************************************************************************)
(* Stamping: pattern, global Y, reference elimination                      *)
(* (core/stamping/matrix_builder.py)                                       *)
(***************************************************************************)
RECURSIVE Concat(_)
Concat(ss) == IF ss = <<>> THEN <<>> ELSE Head(ss) \o Concat(Tail(ss))

\* NetlistGraph.from_circuit for a CircuitModel: add_connection per entry
from_circuit(circ) ==
    [nets |-> {net_name(c) : c \in Range(circ.connections)},
     connections |-> circ.connections]

\* str.lower() on the net names of the model
Lower(n) == IF n = "GND" THEN "gnd" ELSE n

\* _choose_ground: the first of the sorted nets whose lower-cased name is gnd
choose_ground(graph) ==
    LET sorted == SortedNets(graph.nets)
        I == {i \in DOMAIN sorted : Lower(sorted[i]) = "gnd"}
    IN  IF I = {} THEN None ELSE sorted[CHOOSE i \in I : \A j \in I : i <= j]

\* conn_lookup[(component_id, port_name)]: a dict comprehension over the
\* connections, so the last connection of a port is the one kept
conn_lookup(conns, ni, id, pname) ==
    LET I == {i \in DOMAIN conns : conns[i][1] = id /\ conns[i][2] = pname}
        last == CHOOSE i \in I : \A j \in I : j <= i
    IN  ni[conns[last][3]]

\* the net indices of a component in declared port order
CompNets(comp, conns, ni) ==
    [k \in DOMAIN comp.ports |-> conn_lookup(conns, ni, comp.id, comp.ports[k])]

\* conn_lookup[(comp.id, pname)] raises KeyError for a declared port that no
\* connection names
compile_pattern_raises(circ, graph) ==
    \E c \in DOMAIN circ.components :
        \E k \in DOMAIN circ.components[c].ports :
            ~\E x \in Range(graph.connections) :
                x[1] = circ.components[c].id /\ x[2] = circ.components[c].ports[k]

\* _compile_pattern with the column index repeated and the row index cycling
compile_pattern_transposed(circ, graph, ni) ==
    LET comps == circ.components
        n(c) == Len(comps[c].ports)
        cn(c) == CompNets(comps[c], graph.connections, ni)
        rowsOf(c) == [k \in 1..(n(c) * n(c)) |-> cn(c)[((k - 1) % n(c)) + 1]]
        colsOf(c) == [k \in 1..(n(c) * n(c)) |-> cn(c)[((k - 1) \div n(c)) + 1]]
        cursor[c \in 0..Len(comps)] == IF c = 0 THEN 0 ELSE cursor[c - 1] + n(c) * n(c)
    IN  [rows |-> Concat([c \in DOMAIN comps |-> rowsOf(c)]),
         cols |-> Concat([c \in DOMAIN comps |-> colsOf(c)]),
         slices |-> [c \in DOMAIN comps |-> [start |-> cursor[c - 1], stop |-> cursor[c]]]]

\* _compile_pattern with the cursor advanced by 2n instead of n*n
compile_pattern_cursor(circ, graph, ni) ==
    LET comps == circ.components
        n(c) == Len(comps[c].ports)
        cn(c) == CompNets(comps[c], graph.connections, ni)
        rowsOf(c) == [k \in 1..(n(c) * n(c)) |-> cn(c)[((k - 1) \div n(c)) + 1]]
        colsOf(c) == [k \in 1..(n(c) * n(c)) |-> cn(c)[((k - 1) % n(c)) + 1]]
        cursor[c \in 0..Len(comps)] == IF c = 0 THEN 0 ELSE cursor[c - 1] + 2 * n(c)
    IN  [rows |-> Concat([c \in DOMAIN comps |-> rowsOf(c)]),
         cols |-> Concat([c \in DOMAIN comps |-> colsOf(c)]),
         slices |-> [c \in DOMAIN comps |->
                        [start |-> cursor[c - 1], stop |-> cursor[c - 1] + n(c) * n(c)]]]

\* _compile_pattern: rows, cols and one slice [start, stop) per component
compile_pattern(circ, graph, ni) ==
    LET comps == circ.components
        n(c) == Len(comps[c].ports)
        cn(c) == CompNets(comps[c], graph.connections, ni)
        rowsOf(c) == [k \in 1..(n(c) * n(c)) |-> cn(c)[((k - 1) \div n(c)) + 1]]
        colsOf(c) == [k \in 1..(n(c) * n(c)) |-> cn(c)[((k - 1) % n(c)) + 1]]
        cursor[c \in 0..Len(comps)] == IF c = 0 THEN 0 ELSE cursor[c - 1] + n(c) * n(c)
    IN  [rows |-> Concat([c \in DOMAIN comps |-> rowsOf(c)]),
         cols |-> Concat([c \in DOMAIN comps |-> colsOf(c)]),
         slices |-> [c \in DOMAIN comps |-> [start |-> cursor[c - 1], stop |-> cursor[c]]]]

\* A sparse matrix: its shape, the stored positions and their values
\* (0-based <<row, col>>).
Matrix(dim, stored, val) == [dim |-> dim, stored |-> stored, val |-> val]

\* sp.coo_matrix((data, (rows, cols))).tocsr(): duplicates are summed
RECURSIVE SumAt(_, _, _, _, _)
SumAt(data, rows, cols, rc, k) ==
    IF k = 0 THEN Cx(0)
    ELSE IF <<rows[k], cols[k]>> = rc
         THEN CxAdd(SumAt(data, rows, cols, rc, k - 1), data[k])
         ELSE SumAt(data, rows, cols, rc, k - 1)

CooToCsr(data, rows, cols, dim) ==
    LET stored == {<<rows[k], cols[k]>> : k \in DOMAIN rows}
    IN  Matrix(dim, stored, [rc \in stored |-> SumAt(data, rows, cols, rc, Len(rows))])

\* M[np.ix_(idx, idx)] for 0-based index lists
SubMatrix(M, ridx, cidx) ==
    LET stored == {<<i, j>> \in (0..(Len(ridx) - 1)) \X (0..(Len(cidx) - 1)) :
                        <<ridx[i + 1], cidx[j + 1]>> \in M.stored}
    IN  [rdim |-> Len(ridx), dim |-> Len(cidx), stored |-> stored,
         val |-> [rc \in stored |-> M.val[<<ridx[rc[1] + 1], cidx[rc[2] + 1]>>]]]

\* the integers of S in ascending order
RECURSIVE Ascending(_)
Ascending(S) ==
    IF S = {} THEN <<>>
    ELSE LET m == CHOOSE x \in S : \A y \in S : x <= y
         IN  <<m>> \o Ascending(S \ {m})

\* ref_name = self._ground_net or "gnd"
RefName(ground_net) == IF ground_net = None THEN "gnd" ELSE ground_net

\* _eliminate_reference: g is the first key of the map (a dict built by
\* enumerate, so in index order) that equals ref_name when both are
\* lower-cased; drops the row and column of g and packs the indices of the
\* other nets.
eliminate_reference(Y, ni, ref_name) ==
    LET matching == {n \in Keys(ni) : Lower(n) = Lower(ref_name)}
    IN  IF matching = {}
        THEN [Y |-> Y, node_index |-> ni]
        ELSE LET g == CHOOSE n \in matching : \A m \in matching : ni[n] <= ni[m]
                 gidx == ni[g]
                 keep == Ascending((0..(Y.dim - 1)) \ {gidx})
             IN  Only({[Y |-> Matrix(Y.dim - 1, sub.stored, sub.val),
                        node_index |-> [n \in NetSet |->
                            IF n = g \/ ni[n] = -1 THEN -1
                            ELSE ni[n] - (IF ni[n] > gidx THEN 1 ELSE 0)]] :
                       sub \in {SubMatrix(Y, keep, keep)}})

\* Variant of ExtIdx: every external port gets the index its net is mapped to,
\* present or not.
ExtIdxUnfiltered(circ, ni) ==
    [k \in DOMAIN circ.external_ports |-> ni[circ.external_ports[k].net_name]]

\* ext_idx = [node_index[s.net_name] for s in ext_specs if s.net_name in node_index]
ExtIdx(circ, ni) ==
    LET present == SelectSeq(circ.external_ports, LAMBDA sp : ni[sp.net_name] # -1)
    IN  [k \in DOMAIN present |-> ni[present[k].net_name]]
\* int_idx = list(all_indices - set(ext_idx)): small ints iterate ascending
IntIdx(dim, ext_idx) == Ascending((0..(dim - 1)) \ Range(ext_idx))

(***************************************************************************)
(* Factorization cache (core/stamping/_cache.py) and build_global_Y        *)
(***************************************************************************)
\* Width of a data word. The code views complex128 data as uint64 words, two
\* per entry (re, im); the model keeps the layout of a float (a sign bit on
\* top of the magnitude bits, so that bits(-x) = bits(x) xor sign) in words
\* of WordBits bits.
WordBits == 8

RECURSIVE Pow2(_)
Pow2(n) == IF n = 0 THEN 1 ELSE 2 * Pow2(n - 1)
SignBit == Pow2(WordBits - 1)

\* the word holding the number v
Bits(v) == IF v >= 0 THEN v % SignBit ELSE SignBit + ((-v) % SignBit)

RECURSIVE Xor(_, _)
Xor(a, b) ==
    IF a = 0 THEN b
    ELSE IF b = 0 THEN a
    ELSE (((a % 2) + (b % 2)) % 2) + 2 * Xor(a \div 2, b \div 2)

\* M.tocsc(): the stored positions column by column, rows ascending
CscPositions(M) ==
    LET col(j) == LET rs == {rc[1] : rc \in {x \in M.stored : x[2] = j}}
                  IN  [k \in 1..Cardinality(rs) |-> <<Ascending(rs)[k], j>>]
    IN  Concat([j \in 1..M.dim |-> col(j - 1)])

CscData(M) == LET pos == CscPositions(M) IN [k \in DOMAIN pos |-> M.val[pos[k]]]

\* sparsity_fingerprint: a digest of (indices, indptr, shape); the digest is
\* taken to be collision-free, so it is the hashed tuple itself
sparsity_fingerprint(M) ==
    LET pos == CscPositions(M)
    IN  <<[k \in DOMAIN pos |-> pos[k][1]],
          [j \in 1..(M.dim + 1) |-> Cardinality({k \in DOMAIN pos : pos[k][2] < j - 1})],
          <<M.rdim, M.dim>>>>

\* M.data.view(np.uint64): two words per complex entry
DataWords(data) ==
    [k \in 1..(2 * Len(data)) |->
        IF k % 2 = 1 THEN Bits(data[(k + 1) \div 2][1]) ELSE Bits(data[k \div 2][2])]

RECURSIVE XorReduce(_)
XorReduce(ws) == IF ws = <<>> THEN 0 ELSE Xor(Head(ws), XorReduce(Tail(ws)))

\* data_checksum: np.bitwise_xor.reduce over the words
data_checksum(M) == XorReduce(DataWords(CscData(M)))

\* LUEntry(pattern_key, data_key, solver); the solver is represented by the
\* data of the matrix it was factorized from
LUEntry(patt_key, dat_key, solver) ==
    [pattern_key |-> patt_key, data_key |-> dat_key, solver |-> solver]

\* _LU_FACTOR_CACHE.get(patt_key): the entries under that key (none or one)
CacheGet(cache, patt_key) == {en \in cache : en.pattern_key = patt_key}
\* Variant of CachePut: the entry is added alongside those already there.
CachePutAlongside(cache, entry) == cache \cup {entry}

\* _LU_FACTOR_CACHE[patt_key] = entry
CachePut(cache, entry) ==
    {en \in cache : en.pattern_key # entry.pattern_key} \cup {entry}

\* splu raises on an exactly singular matrix (1x1 and 2x2 blocks: det = 0)
Det2(M) ==
    LET v(i, j) == IF <<i, j>> \in M.stored THEN M.val[<<i, j>>][1] ELSE 0
    IN  IF M.dim = 1 THEN v(0, 0)
        ELSE v(0, 0) * v(1, 1) - v(0, 1) * v(1, 0)
SpluRaises(M) == M.dim <= 2 /\ Det2(M) = 0

\* LinearOperator(Y_ii): the factorization of Y_ii
LinearOperator(M) == CscData(M)

\* The cache lookup of build_global_Y for the internal block Y_ii: reuse the
\* cached solver if the entry under the fingerprint has the same checksum,
\* else factorize and store.
CacheLookup(cache, Y_ii) ==
    LET patt_key == sparsity_fingerprint(Y_ii)
        dat_key == data_checksum(Y_ii)
        found == CacheGet(cache, patt_key)
        hit == \E en \in found : en.data_key = dat_key
    IN  IF hit
        THEN [raised |-> FALSE, hit |-> TRUE, cache |-> cache,
              solver |-> (CHOOSE en \in found : TRUE).solver]
        ELSE IF SpluRaises(Y_ii)
        THEN [raised |-> TRUE, hit |-> FALSE, cache |-> cache, solver |-> <<>>]
        ELSE [raised |-> FALSE, hit |-> FALSE,
              cache |-> CachePut(cache, LUEntry(patt_key, dat_key, LinearOperator(Y_ii))),
              solver |-> LinearOperator(Y_ii)]

\* MatrixBuilder.__init__ / export_static: what depends on the topology only.
\* node_index_full is the map held by the graph of the package (static.graph),
\* which build_global_Y asks again in the worker.
StaticPackage(circ, graph, ground_net, ni_full) ==
    LET dim == Cardinality(graph.nets)
    IN  Only({
        [rows |-> pat.rows, cols |-> pat.cols, slices |-> pat.slices,
         shape |-> <<dim, dim>>, ext_idx |-> ExtIdx(circ, red.node_index),
         int_idx |-> IntIdx(Cardinality(Keys(red.node_index)),
                            ExtIdx(circ, red.node_index)),
         node_index |-> red.node_index, node_index_full |-> ni_full,
         ground_net |-> ground_net] :
            pat \in {compile_pattern(circ, graph, ni_full)},
            red \in {eliminate_reference(Matrix(dim, {}, <<>>), ni_full,
                                         RefName(ground_net))}})

\* build_global_Y from step 2 on, when no component raised: the reduced global
\* Y, the partition and the internal block. data holds the flattened Y
\* matrices of the components, one after the other.
GlobalYFrom(static, circ, data0) ==
    LET dim == Cardinality(Keys(static.node_index_full))
        Reduced(data, full, red) ==
            Only({[Y |-> red.Y, ext_idx |-> ext_idx, int_idx |-> int_idx,
                   Y_ii |-> SubMatrix(red.Y, int_idx, int_idx),
                   data |-> data, full |-> full, node_index |-> red.node_index] :
                    ext_idx \in {ExtIdx(circ, red.node_index)},
                    int_idx \in {IntIdx(red.Y.dim, ExtIdx(circ, red.node_index))}})
        Eliminated(data, full) ==
            Only({Reduced(data, full, red) :
                    red \in {eliminate_reference(full, static.node_index_full,
                                                 RefName(static.ground_net))}})
        Assembled(data) ==
            Only({Eliminated(data, full) :
                    full \in {CooToCsr(data, static.rows, static.cols, dim)}})
    IN  Only({Assembled(data) : data \in {data0}})

\* step 1 of build_global_Y in a nested model, which holds no subcircuits
\* (one level of nesting): data[slc] = Yk.reshape(n * n) per component
PlainData(circ, freq, params) ==
    Concat([c \in DOMAIN circ.components |-> PlainY(circ.components[c], freq, params)])

\* SubcircuitComponent.get_ymatrix, step 1: exprs = dict(params), updated with
\* the nested globals and then with the params of every nested component.
\* The order of the caller's values in dict(params) has no effect on the
\* values resolve gives.
ParamOrder == <<"R", "a_val", "b_val", "s">>
AsExprs(params) ==
    LET keys == SelectSeq(ParamOrder, LAMBDA n : params[n] # NoValue)
    IN  [i \in DOMAIN keys |-> Bind(keys[i], Num(params[keys[i]]))]
SubcircuitExprs(comp, params) ==
    UpdateAll(Update(AsExprs(params), comp.nested_model.global_parameters),
              comp.nested_model.components)
SubcircuitResolve(comp, params) == resolve(SubcircuitExprs(comp, params), ParamOrder)

\* steps 2 and 3: build_global_Y on the nested model with the cached
\* topology, then Yg[np.ix_(idxs, idxs)] at the inner nets of the interface.
\* It raises when resolve does, when a nested component does, when the
\* internal block of the nested model is factorized and is singular, and
\* (ParameterError) when an interface net is no key of the reduced map.
SubcircuitRaises(comp, freq, params) ==
    LET nested == comp.nested_model
    IN  \E r \in {SubcircuitResolve(comp, params)} :
        \/ r.status # "ok"
        \/ \E c \in DOMAIN nested.components :
                PlainRaises(nested.components[c], freq, r.resolved)
        \/ \E g \in {GlobalYFrom(comp.static_pkg, nested,
                                   PlainData(nested, freq, r.resolved))} :
            \/ g.int_idx # <<>> /\ SpluRaises(g.Y_ii)
            \/ \E k \in DOMAIN comp.ports : g.node_index[comp.interface_map[k]] = -1
\* Yg[np.ix_(idxs, idxs)] with idxs the indices of the interface nets,
\* flattened row-major
InterfaceY(comp, g) ==
    LET n == Len(comp.ports)
    IN  Only({[k \in 1..(n * n) |->
                LET rc == <<idxs[((k - 1) \div n) + 1], idxs[((k - 1) % n) + 1]>>
                IN  IF rc \in g.Y.stored THEN g.Y.val[rc] ELSE Cx(0)] :
              idxs \in {[k \in DOMAIN comp.ports |->
                            g.node_index[comp.interface_map[k]]]}})
SubcircuitY(comp, freq, params) ==
    Only({InterfaceY(comp, g) :
                g \in {GlobalYFrom(comp.static_pkg, comp.nested_model,
                        PlainData(comp.nested_model, freq,
                                  SubcircuitResolve(comp, params).resolved))}})

\* comp.get_ymatrix(freq, params), by component type
get_ymatrix_raises(comp, freq, params) ==
    IF comp.type = "subcircuit" THEN SubcircuitRaises(comp, freq, params)
    ELSE PlainRaises(comp, freq, params)
get_ymatrix(comp, freq, params) ==
    IF comp.type = "subcircuit" THEN SubcircuitY(comp, freq, params)
    ELSE PlainY(comp, freq, params)

\* build_global_Y, when no component raises
GlobalY(static, circ, freq, params) ==
    GlobalYFrom(static, circ,
        Concat([c \in DOMAIN circ.components |->
                    get_ymatrix(circ.components[c], freq, params)]))

(***************************************************************************)
(* Worker: evaluate_point (core/stamping/_worker.py)                       *)
(***************************************************************************)
\* s_matrix = None
NoneS == [some |-> FALSE, Y |-> <<>>, lu |-> <<>>, Z0 |-> <<>>, idx |-> <<>>]
\* The S matrix of a point is a function of the reduced global Y, of the
\* factorization used for the internal block, of the port impedances and of
\* the rows taken from Y; it is represented by these four.
\* idx lists the nodes of the reduced Y that the rows of the Y_eff handed to
\* y_to_s are those of: ext_idx in Y_global[np.ix_(ext_idx, ext_idx)], every
\* node in index order in Y_global.toarray().
SMatrix(Y, lu, Z0, idx) ==
    [some |-> TRUE, Y |-> CscData(Y), lu |-> lu, Z0 |-> Z0, idx |-> idx]

NoError == [kind |-> "", freq |-> 0, text |-> ""]
\* f"Param resolution error at f={freq}: {e}", f"Evaluation error at f={freq}: {e}"
ErrorMessage(kind, freq, text) == [kind |-> kind, freq |-> freq, text |-> text]

Entry(freq, local_overrides, S) ==
    [frequency |-> freq, parameters |-> local_overrides, s_matrix |-> S]

NoLookup == [looked |-> FALSE, hit |-> FALSE, Y_ii |-> <<>>, solver |-> <<>>]

\* What evaluate_point returns for a task in a process holding `cache`, for
\* the values `r` that resolve gave: (entry, error), and the cache it leaves.
\* lookup records the cache lookup made, if one was.
Failed(task, text, cache, lookup) ==
    [entry |-> Entry(task.freq, task.local_overrides, NoneS),
     error |-> ErrorMessage("Evaluation error", task.freq, text),
     cache |-> cache, lookup |-> lookup]

Assemble(static, circ, task, resolved, cache) ==
    LET comps == circ.components
        specs == circ.external_ports
        Reduce(g, look) ==
            LET seen == [looked |-> TRUE, hit |-> look.hit, Y_ii |-> CscData(g.Y_ii),
                         solver |-> look.solver]
                internals == g.int_idx # <<>>
                cache2 == IF internals THEN look.cache ELSE cache
                lookup2 == IF internals THEN seen ELSE NoLookup
            IN  IF internals /\ look.raised
                THEN Failed(task, "splu", cache, NoLookup)
                ELSE IF \E k \in DOMAIN specs :
                            get_impedance_raises(specs[k].impedance, resolved)
                THEN Failed(task, "get_impedance", cache2, lookup2)
                ELSE IF Len(specs) # (IF internals THEN Len(g.ext_idx) ELSE g.Y.dim)
                THEN Failed(task, "y_to_s", cache2, lookup2)
                ELSE [entry |-> Entry(task.freq, task.local_overrides,
                                SMatrix(g.Y, IF internals THEN look.solver ELSE <<>>,
                                        [k \in DOMAIN specs |->
                                            get_impedance(specs[k].impedance, task.freq,
                                                          resolved)],
                                        IF internals THEN g.ext_idx
                                        ELSE [k \in 1..g.Y.dim |-> k - 1])),
                      error |-> NoError, cache |-> cache2, lookup |-> lookup2]
        Solve(g) == Only({Reduce(g, look) : look \in {CacheLookup(cache, g.Y_ii)}})
    IN  IF \E c \in DOMAIN comps : get_ymatrix_raises(comps[c], task.freq, resolved)
        THEN Failed(task, "get_ymatrix", cache, NoLookup)
        ELSE Only({Solve(g) : g \in {GlobalY(static, circ, task.freq, resolved)}})

\* exprs = dict(raw_globals); exprs.update(comp.params)...; exprs.update(local_overrides)
PointExprs(circ, task) ==
    Update(UpdateAll(task.raw_globals, circ.components), task.local_overrides)

evaluate_point(static, circ, task, cache, ord) ==
    LET Point(r, cache0) ==
            IF r.status # "ok"
            THEN [entry |-> Entry(task.freq, task.local_overrides, NoneS),
                  error |-> ErrorMessage("Param resolution error", task.freq, r.status),
                  cache |-> cache0, lookup |-> NoLookup]
            ELSE Only({Assemble(static, circ, task, resolved, cache0) :
                        resolved \in {r.resolved}})
    IN  Only({Point(r, cache0) :
                r \in {resolve(PointExprs(circ, task), ord)}, cache0 \in {cache}})

(***************************************************************************)
(* Sweep driver: MatrixBuilder.sweep and Simulator.run_sweep               *)
(***************************************************************************)
MaxPoints == 2
NWorkers == 2
MaxR == 2

\* SweepEntry(param, range, points, scale, values); range <<>> and points -1
\* stand for None, has_values FALSE for values = None
FreqEntry(range, points, scale) ==
    [param |-> "f", range |-> range, points |-> points, scale |-> scale,
     has_values |-> FALSE, values |-> <<>>]
ParamEntry(param, values) ==
    [param |-> param, range |-> <<>>, points |-> -1, scale |-> "None",
     has_values |-> TRUE, values |-> values]
NoValuesEntry(param) == [ParamEntry(param, <<>>) EXCEPT !.has_values = FALSE]

RECURSIVE Pow(_, _)
Pow(b, n) == IF n = 0 THEN 1 ELSE b * Pow(b, n - 1)

\* np.linspace(start, end, points)
linspace(start, end, points) ==
    [i \in 1..points |->
        IF points = 1 THEN start ELSE start + ((i - 1) * (end - start)) \div (points - 1)]
\* np.logspace(log10(start), log10(end), points)
logspace(start, end, points) ==
    [i \in 1..points |->
        IF points = 1 THEN start
        ELSE start * Pow(CHOOSE q \in 1..(end \div start) : Pow(q, points - 1) = end \div start,
                         i - 1)]

\* Variant of product: zip(*lists), the lists walked in step.
productZip(lists) ==
    IF lists = <<>> THEN << <<>> >>
    ELSE LET n == CHOOSE m \in 0..Len(lists[1]) :
                    /\ \A k \in DOMAIN lists : m <= Len(lists[k])
                    /\ \E k \in DOMAIN lists : m = Len(lists[k])
         IN  [i \in 1..n |-> [k \in DOMAIN lists |-> lists[k][i]]]

\* itertools.product(*lists): the last list varies fastest
RECURSIVE product(_)
product(lists) ==
    IF lists = <<>> THEN << <<>> >>
    ELSE LET rest == product(Tail(lists))
             first == Head(lists)
         IN  Concat([i \in DOMAIN first |->
                        [j \in DOMAIN rest |-> <<first[i]>> \o rest[j]]])

\* The loop of sweep over sweep_config.sweep: the frequency list and the
\* param_sweeps dict, or RFSimError
RECURSIVE ReadConfig(_, _, _)
ReadConfig(es, freq_list, param_sweeps) ==
    IF es = <<>>
    THEN [raised |-> FALSE, freq_list |-> freq_list, param_sweeps |-> param_sweeps]
    ELSE LET en == Head(es)
         IN  IF en.param = "f"
             THEN IF en.range = <<>> \/ en.points = -1
                  THEN [raised |-> TRUE, freq_list |-> <<>>, param_sweeps |-> <<>>]
                  ELSE ReadConfig(Tail(es),
                            IF en.scale = "log"
                            THEN logspace(en.range[1], en.range[2], en.points)
                            ELSE linspace(en.range[1], en.range[2], en.points),
                            param_sweeps)
             ELSE IF ~en.has_values
                  THEN [raised |-> TRUE, freq_list |-> <<>>, param_sweeps |-> <<>>]
                  ELSE ReadConfig(Tail(es), freq_list,
                            Update(param_sweeps, <<[key |-> en.param, expr |-> en.values]>>))

\* the tasks of sweep: for freq in freq_list: for vals in value_combinations
BuildTasks(cfg, raw_globals) ==
    LET keys == KeysOf(cfg.param_sweeps)
        value_combinations ==
            product([k \in DOMAIN keys |-> cfg.param_sweeps[k].expr])
        point(f, vals) ==
            [freq |-> f,
             local_overrides |-> [k \in DOMAIN keys |-> [key |-> keys[k], expr |-> vals[k]]],
             raw_globals |-> raw_globals]
    IN  Concat([i \in DOMAIN cfg.freq_list |->
                    [j \in DOMAIN value_combinations |->
                        point(cfg.freq_list[i], value_combinations[j])]])

\* Variant of CollectResult: a failed point leaves its message only.
CollectResultDropFailed(res, got) ==
    IF res.error # NoError
    THEN [entries |-> got.entries, errors |-> Append(got.errors, res.error)]
    ELSE [entries |-> Append(got.entries, res.entry), errors |-> got.errors]

\* Variant of CollectResult: the error string of every point is kept, the
\* empty ones too.
CollectResultEveryMessage(res, got) ==
    [entries |-> Append(got.entries, res.entry), errors |-> Append(got.errors, res.error)]

\* results.append(entry); if error: errors.append(error)
CollectResult(res, got) ==
    [entries |-> Append(got.entries, res.entry),
     errors |-> IF res.error # NoError THEN Append(got.errors, res.error) ELSE got.errors]

\* load_netlist: the globals are kept as strings and every component gets
\* {**global_parameters, **its own params}
load_netlist(base, globals) ==
    [name |-> base.name,
     global_parameters |-> globals,
     components |-> [c \in DOMAIN base.components |->
                        [base.components[c] EXCEPT !.params = Update(globals, @)]],
     external_ports |-> base.external_ports,
     connections |-> base.connections]

P(name, net) == [name |-> name, net_name |-> net, impedance |-> FixedPortImpedance(50)]
R1 == <<Bind("R", Num(1))>>
R2 == <<Bind("R", Num(2))>>

\* n1 -X1- n2 -X2- p1, the nested model of a three-port subcircuit
TeeInner ==
    [name |-> "tee", global_parameters |-> <<>>,
     components |-> <<Resistor("X1", R1), Resistor("X2", R2)>>,
     external_ports |-> <<P("P1", "n1"), P("P2", "p1")>>,
     connections |-> << <<"X1", "1", "n1">>, <<"X1", "2", "n2">>,
                        <<"X2", "1", "n2">>, <<"X2", "2", "p1">> >>]
\* n1 -X1- gnd, the nested model of a one-port subcircuit
ShuntInner ==
    [name |-> "shunt", global_parameters |-> <<>>,
     components |-> <<Resistor("X1", R2)>>,
     external_ports |-> <<P("P1", "n1")>>,
     connections |-> << <<"X1", "1", "n1">>, <<"X1", "2", "gnd">> >>]

\* SubcircuitComponent.__init__: MatrixBuilder(graph, nested).export_static().
\* Neither nested model leaves node_index a choice.
NestedStatic(nested) ==
    LET graph == from_circuit(nested)
        ground == choose_ground(graph)
    IN  Only({StaticPackage(nested, graph, ground, ni) :
                ni \in ComputeNodeIndex(graph.nets, ground)})

Tee(id) ==
    Subcircuit(id, TeeInner, <<"a", "b", "c">>, <<"n1", "p1", "n2">>, NestedStatic(TeeInner))
\* the tee with an interface that names p2, which is no net of the nested model
BadTee(id) ==
    Subcircuit(id, TeeInner, <<"a", "b", "c">>, <<"n1", "p1", "p2">>, NestedStatic(TeeInner))
Shunt(id) ==
    Subcircuit(id, ShuntInner, <<"a">>, <<"n1">>, NestedStatic(ShuntInner))

\* Further circuits
PiNet ==
    [name |-> "pi", global_parameters |-> <<>>,
     components |-> <<Resistor("X1", R1), Resistor("X2", R1), Resistor("X3", R2)>>,
     external_ports |-> <<P("P1", "p1"), P("P2", "p2")>>,
     connections |-> << <<"X1", "1", "p1">>, <<"X1", "2", "gnd">>,
                        <<"X2", "1", "p1">>, <<"X2", "2", "p2">>,
                        <<"X3", "1", "p2">>, <<"X3", "2", "gnd">> >>]
TwoGrounds ==
    [name |-> "two_grounds", global_parameters |-> <<>>,
     components |-> <<Resistor("X1", R1), Resistor("X2", R2)>>,
     external_ports |-> <<P("P1", "p1")>>,
     connections |-> << <<"X1", "1", "p1">>, <<"X1", "2", "GND">>,
                        <<"X2", "1", "p1">>, <<"X2", "2", "gnd">> >>]
WithTee ==
    [name |-> "with_tee", global_parameters |-> <<>>,
     components |-> <<Tee("S1"), Resistor("X1", R1)>>,
     external_ports |-> <<P("P1", "p1"), P("P2", "p2")>>,
     connections |-> << <<"S1", "a", "p1">>, <<"S1", "b", "p2">>, <<"S1", "c", "n1">>,
                        <<"X1", "1", "n1">>, <<"X1", "2", "gnd">> >>]
WithBadTee ==
    [WithTee EXCEPT !.name = "with_bad_tee", !.components[1] = BadTee("S1")]
WithShunt ==
    [name |-> "with_shunt", global_parameters |-> <<>>,
     components |-> <<Resistor("X1", R1), Shunt("S1")>>,
     external_ports |-> <<P("P1", "p1"), P("P2", "p2")>>,
     connections |-> << <<"X1", "1", "p1">>, <<"X1", "2", "p2">>, <<"S1", "a", "p2">> >>]
\* port 2 of X1 is named by two connections
Rewired ==
    [name |-> "rewired", global_parameters |-> <<>>,
     components |-> <<Resistor("X1", R1), Resistor("X2", R2)>>,
     external_ports |-> <<P("P1", "p1"), P("P2", "p2")>>,
     connections |-> << <<"X1", "1", "p1">>, <<"X1", "2", "n1">>, <<"X1", "2", "p2">>,
                        <<"X2", "1", "n1">>, <<"X2", "2", "p2">> >>]
\* a resistor with one port unconnected
OpenPort ==
    [name |-> "open_port", global_parameters |-> <<>>,
     components |-> <<Resistor("X1", R1)>>,
     external_ports |-> <<P("P1", "p1")>>,
     connections |-> << <<"X1", "1", "p1">> >>]

\* p1 -X1- p2 and no other net, the ports declared in the order of the net
\* names and in the other order
Direct ==
    [name |-> "direct", global_parameters |-> <<>>,
     components |-> <<Resistor("X1", R1)>>,
     external_ports |-> <<P("P1", "p1"), P("P2", "p2")>>,
     connections |-> << <<"X1", "1", "p1">>, <<"X1", "2", "p2">> >>]
DirectSwapped ==
    [Direct EXCEPT !.name = "direct_swapped",
                   !.external_ports = <<P("P1", "p2"), P("P2", "p1")>>]
\* p1 -X1- n1 -X2- gnd with a port on the reference net
PortOnGround ==
    [name |-> "port_on_ground", global_parameters |-> <<>>,
     components |-> <<Resistor("X1", R1), Resistor("X2", R2)>>,
     external_ports |-> <<P("P1", "p1"), P("P2", "gnd")>>,
     connections |-> << <<"X1", "1", "p1">>, <<"X1", "2", "n1">>,
                        <<"X2", "1", "n1">>, <<"X2", "2", "gnd">> >>]
\* p1 -X1- gnd with a port on the reference net: no internal net
PortOnGroundFlat ==
    [name |-> "port_on_ground_flat", global_parameters |-> <<>>,
     components |-> <<Resistor("X1", R1)>>,
     external_ports |-> <<P("P1", "p1"), P("P2", "gnd")>>,
     connections |-> << <<"X1", "1", "p1">>, <<"X1", "2", "gnd">> >>]

\* "n" as YAML text
Lit(n) == Str("prod", n, {})

\* The parameters sections of the netlists swept
PlainGlobals ==
    {<<>>,
     <<Bind("b_val", Str("sum", 1, {"a_val"})), Bind("a_val", Lit(2))>>}
GlobalChoices ==
    PlainGlobals \cup
    {<<Bind("a_val", Str("sum", 1, {"x_val"}))>>,
     <<Bind("a_val", Str("sum", 1, {"a_val"}))>>,
     <<Bind("a_val", Str("sum", 1, {"b_val"})), Bind("b_val", Str("sum", 1, {"a_val"}))>>,
     <<Bind("a_val", Str("sum", 1, {"b_val"})), Bind("b_val", Str("sum", 1, {"s"})),
       Bind("s", Str("sum", 1, {"a_val"}))>>,
     <<Bind("s", Str("prod", 2, {"s"}))>>}

\* The netlists swept: the ladder with every parameters section, the others
\* with those that resolve
Netlists ==
    {load_netlist(Ladder, globals) : globals \in GlobalChoices}
        \cup {load_netlist(Floating, <<>>)}
        \cup {load_netlist(LadderZ, globals) : globals \in PlainGlobals}
        \cup {WithTee, WithBadTee, OpenPort, PortOnGround, PortOnGroundFlat, Direct,
              DirectSwapped}

FreqChoices ==
    {FreqEntry(<<12, 24>>, n, "linear") : n \in 0..MaxPoints}
        \cup {FreqEntry(<<1, 4>>, MaxPoints, "log")}

ValueLists ==
    {<<Num(1), Num(2)>>, <<Num(0), Num(1)>>, <<Str("bad", 1, {}), Num(2)>>, <<>>}

\* The sweep specifications tried: one frequency entry alone, with one
\* parameter entry, with two; and the ill-formed ones (no frequency entry,
\* two of them, a repeated parameter, missing range or values).
SweepChoices ==
    {<<f>> : f \in FreqChoices}
    \cup {<<FreqEntry(<<12, 24>>, 2, "linear"), ParamEntry("R", vl)>> : vl \in ValueLists}
    \cup {<<ParamEntry("R", <<Num(0), Num(2)>>), FreqEntry(<<12, 24>>, 1, "linear"),
            ParamEntry("a_val", <<Num(1), Num(3)>>)>>,
          <<>>,
          <<ParamEntry("R", <<Num(1), Num(2)>>)>>,
          <<FreqEntry(<<12, 24>>, 1, "linear"), FreqEntry(<<1, 4>>, MaxPoints, "log")>>,
          <<FreqEntry(<<12, 24>>, 1, "linear"), ParamEntry("R", <<Num(1)>>),
            ParamEntry("R", <<Num(2), Num(1)>>)>>,
          <<FreqEntry(<<>>, -1, "linear")>>,
          <<FreqEntry(<<12, 24>>, 1, "linear"), NoValuesEntry("R")>>}

(***************************************************************************)
(* Structural validation (core/validation.py) and the command line entry   *)
(* point main() (simulator.py)                                             *)
(***************************************************************************)
\* declared - wired is not empty for some component
HasDanglingPort(circ) ==
    \E c \in DOMAIN circ.components :
        \E k \in DOMAIN circ.components[c].ports :
            ~\E x \in Range(circ.connections) :
                x[1] = circ.components[c].id /\ x[2] = circ.components[c].ports[k]

\* conn_dict[component_id]: the nets of its connections, in their order
ConnDict(circ, id) ==
    LET mine == SelectSeq(circ.connections, LAMBDA x : x[1] = id)
    IN  [k \in DOMAIN mine |-> mine[k][3]]

\* the edges added: every two nets of a component, none of them gnd
\* (for two nets and for more the loops add the same pairs)
ValidationEdges(circ) ==
    UNION {LET joined == ConnDict(circ, id)
           IN  IF Len(joined) < 2 THEN {}
               ELSE {<<joined[i], joined[j]>> : i, j \in DOMAIN joined} \cap
                    {e \in NetSet \X NetSet : Lower(e[1]) # "gnd" /\ Lower(e[2]) # "gnd"} :
            id \in {x[1] : x \in Range(circ.connections)}}

\* the nodes reachable from those of S along the edges E
RECURSIVE ReachableNets(_, _)
ReachableNets(S, E) ==
    LET T == S \cup {e[2] : e \in {d \in E : d[1] \in S}}
    IN  IF T = S THEN S ELSE ReachableNets(T, E)

\* nx.is_connected(graph), for a graph that has nodes
is_connected(nodes, E) ==
    \A n \in nodes : ReachableNets({n}, E) = nodes

\* Variant of validate_circuit_structure: the connectivity check alone.
validate_connectivity_only(circ) ==
    LET nodes == {n \in {net_name(x) : x \in Range(circ.connections)} : Lower(n) # "gnd"}
    IN  IF nodes # {} /\ ~is_connected(nodes, ValidationEdges(circ))
        THEN "Circuit graph is not fully connected"
        ELSE ""

\* validate_circuit_structure: the message of the RFSimError raised, "" if
\* none is
validate_circuit_structure(circ) ==
    LET nodes == {n \in {net_name(x) : x \in Range(circ.connections)} : Lower(n) # "gnd"}
    IN  IF HasDanglingPort(circ)
        THEN "Floating port errors"
        ELSE IF nodes # {} /\ ~is_connected(nodes, ValidationEdges(circ))
        THEN "Circuit graph is not fully connected"
        ELSE ""

NoResult ==
    [done |-> FALSE, entry |-> Entry(0, <<>>, NoneS), error |-> NoError, lookup |-> NoLookup]
\* a worker process before its first task: its _LU_FACTOR_CACHE is empty
IdleWorker == [task |-> 0, cache |-> {}]

\* The run starts in main(), which has loaded the netlist, or with a call of
\* Simulator.run_sweep by a program that uses the class.
SweepInit ==
    /\ circuit \in Netlists
    /\ sweep_config \in SweepChoices
    /\ pc \in {"main", "start"}
    /\ static_pkg = [ground_net |-> "None"]
    /\ tasks = <<>>
    /\ next_task = 1
    /\ workers = [w \in 1..NWorkers |-> IdleWorker]
    /\ futures = <<>>
    /\ yielded = 0
    /\ entries = <<>>
    /\ errors = <<>>

\* main(): validate_circuit_structure(circuit); an RFSimError is printed and
\* main returns, else it loads the sweep file and calls run_sweep.
MainValidate ==
    /\ pc = "main"
    /\ pc' = IF validate_circuit_structure(circuit) # "" THEN "rejected" ELSE "start"
    /\ UNCHANGED <<circuit, sweep_config, static_pkg, tasks, next_task, workers, futures,
                   yielded, entries, errors, resolveVars, graphVars, patternVars, otherVars>>

\* Simulator.run_sweep up to the creation of the pool: resolve the globals
\* (which rewrites circuit.global_parameters), build the graph and the
\* MatrixBuilder (whose _compile_pattern raises KeyError for a port without
\* connection), read the sweep specification, build the tasks. The
\* resolver variables record the resolve call.
RunSweepBegin ==
    /\ pc = "start"
    /\ resolve_arg' = circuit.global_parameters
    /\ calls' = calls + 1
    /\ \E ord \in Orderings(KeySet(circuit.global_parameters)) :
        \E r \in {resolve(circuit.global_parameters, ord)} :
        \E circ \in {[circuit EXCEPT !.global_parameters = r.param_dict]} :
        \E graph \in {from_circuit(circ)} :
        \E ground \in {choose_ground(graph)} :
        \E cfg \in {ReadConfig(sweep_config, <<>>, <<>>)} :
            /\ circuit' = circ
            /\ param_dict' = r.param_dict
            /\ outcome' = [status |-> r.status, resolved |-> r.resolved, order |-> r.order]
            /\ IF r.status # "ok"
               THEN /\ pc' = "raised"
                    /\ UNCHANGED <<static_pkg, tasks, futures>>
               ELSE IF compile_pattern_raises(circ, graph)
               THEN /\ pc' = "KeyError"
                    /\ UNCHANGED <<static_pkg, tasks, futures>>
               ELSE \E ni \in ComputeNodeIndex(graph.nets, ground) :
                    /\ static_pkg' = StaticPackage(circ, graph, ground, ni)
                    /\ IF cfg.raised
                       THEN pc' = "raised" /\ UNCHANGED <<tasks, futures>>
                       ELSE /\ pc' = "sweeping"
                            /\ tasks' = BuildTasks(cfg, circ.global_parameters)
                            /\ futures' = [i \in DOMAIN tasks' |-> NoResult]
    /\ UNCHANGED <<sweep_config, next_task, workers, yielded, entries, errors, graphVars, patternVars, otherVars>>

\* The pool hands the next task to an idle worker process.
WorkerStart(w) ==
    /\ pc = "sweeping"
    /\ workers[w].task = 0
    /\ next_task <= Len(tasks)
    /\ workers' = [workers EXCEPT ![w].task = next_task]
    /\ next_task' = next_task + 1
    /\ UNCHANGED <<circuit, sweep_config, pc, static_pkg, tasks, futures, yielded, entries,
                   errors, resolveVars, graphVars, patternVars, otherVars>>

\* The worker runs evaluate_point on its task and returns (entry, error).
WorkerFinish(w) ==
    /\ pc = "sweeping"
    /\ workers[w].task # 0
    /\ LET i == workers[w].task
       IN  \E ord \in Orderings(KeySet(PointExprs(circuit, tasks[i]))) :
            \E res \in {evaluate_point(static_pkg, circuit, tasks[i], workers[w].cache, ord)} :
                /\ futures' = [futures EXCEPT ![i] =
                        [done |-> TRUE, entry |-> res.entry, error |-> res.error,
                         lookup |-> res.lookup]]
                /\ workers' = [workers EXCEPT ![w] = [task |-> 0, cache |-> res.cache]]
    /\ UNCHANGED <<circuit, sweep_config, pc, static_pkg, tasks, next_task, yielded, entries,
                   errors, resolveVars, graphVars, patternVars, otherVars>>

\* One turn of the loop over executor.map, which yields in task order.
Collect ==
    /\ pc = "sweeping"
    /\ yielded < Len(tasks)
    /\ futures[yielded + 1].done
    /\ yielded' = yielded + 1
    /\ \E got \in {CollectResult(futures[yielded + 1],
                                   [entries |-> entries, errors |-> errors])} :
            entries' = got.entries /\ errors' = got.errors
    /\ UNCHANGED <<circuit, sweep_config, pc, static_pkg, tasks, next_task, workers, futures,
                   resolveVars, graphVars, patternVars, otherVars>>

\* The loop is over: return SweepResult(entries, errors).
RunSweepEnd ==
    /\ pc = "sweeping"
    /\ yielded = Len(tasks)
    /\ pc' = "done"
    /\ UNCHANGED <<circuit, sweep_config, static_pkg, tasks, next_task, workers, futures,
                   yielded, entries, errors, resolveVars, graphVars, patternVars, otherVars>>

\* The driver is interrupted in the loop over executor.map: nothing in sweep
\* catches the exception, so it leaves sweep and run_sweep; results and
\* errors are locals of sweep and go with its frame, no SweepResult is made.
Cancel ==
    /\ pc = "sweeping"
    /\ pc' = "cancelled"
    /\ entries' = <<>>
    /\ errors' = <<>>
    /\ UNCHANGED <<circuit, sweep_config, static_pkg, tasks, next_task, workers, futures,
                   yielded, resolveVars, graphVars, patternVars, otherVars>>

\* The exit code of the process when the run went through main(): main
\* prints the RFSimError of either try block and returns, and returns after
\* printing the result, so the interpreter exits with 0; an exception main
\* does not catch ends the interpreter with 1. -1 while the run goes on.
exit_code ==
    IF pc \in {"rejected", "raised", "done"} THEN 0
    ELSE IF pc \in {"KeyError", "cancelled"} THEN 1
    ELSE -1

SweepNext ==
    \/ MainValidate
    \/ RunSweepBegin
    \/ \E w \in 1..NWorkers : WorkerStart(w)
    \/ \E w \in 1..NWorkers : WorkerFinish(w)
    \/ Collect
    \/ RunSweepEnd
    \/ Cancel

\* a netlist and a sweep specification; no resolve call made yet
InitSweep == SweepInit /\ GraphInit /\ ResolveIdle /\ PatternIdle /\ OthersIdle

SpecSweep == InitSweep /\ [][SweepNext]_vars

(***************************************************************************)
(* MatrixBuilder on its own: construction (pattern compilation) and         *)
(* build_global_Y, and the stamping helper of the components                *)
(* (core/stamping/matrix_builder.py, core/components/base.py)               *)
(***************************************************************************)
\* Component.y_stamp: resolved = resolve({**params, **self.params}), then the
\* triplets of Y = get_ymatrix(freq, resolved) appended by two nested loops.
RECURSIVE StampCols(_, _, _, _, _)
StampCols(net_indices, Y, i, j, acc) ==
    IF j > Len(net_indices) THEN acc
    ELSE StampCols(net_indices, Y, i, j + 1,
            [rows |-> Append(acc.rows, net_indices[i]),
             cols |-> Append(acc.cols, net_indices[j]),
             data |-> Append(acc.data, Y[(i - 1) * Len(net_indices) + j])])
RECURSIVE StampRows(_, _, _, _)
StampRows(net_indices, Y, i, acc) ==
    IF i > Len(net_indices) THEN acc
    ELSE StampRows(net_indices, Y, i + 1, StampCols(net_indices, Y, i, 1, acc))

y_stamp(comp, net_indices, freq, params) ==
    LET Stamp(r) ==
            IF r.status # "ok" \/ get_ymatrix_raises(comp, freq, r.resolved)
            THEN [raised |-> TRUE, rows |-> <<>>, cols |-> <<>>, data |-> <<>>]
            ELSE Only({[raised |-> FALSE] @@
                       StampRows(idx, Y, 1, [rows |-> <<>>, cols |-> <<>>, data |-> <<>>]) :
                        idx \in {net_indices},
                        Y \in {get_ymatrix(comp, freq, r.resolved)}})
    IN  Only({Stamp(r) : r \in {resolve(Update(AsExprs(params), comp.params), ParamOrder)}})

\* The circuits a MatrixBuilder is built for.
PatternCircuits ==
    {PiNet, TwoGrounds, WithTee, WithBadTee, WithShunt, Rewired, OpenPort,
     load_netlist(Ladder, <<>>)}

\* ctx.params of the build_global_Y calls made
PatternParams == {[Unresolved EXCEPT !["R"] = r] : r \in 0..MaxR}

Reverse(sq) == [i \in DOMAIN sq |-> sq[Len(sq) + 1 - i]]

PatternInit ==
    /\ circuit \in PatternCircuits
    /\ sweep_config = <<>>
    /\ pc = "idle"
    /\ static_pkg = [ground_net |-> "None"]
    /\ tasks = <<>>
    /\ next_task = 1
    /\ workers = <<>>
    /\ futures = <<>>
    /\ yielded = 0
    /\ entries = <<>>
    /\ errors = <<>>
    /\ assembly = NoAssembly

\* graph = NetlistGraph.from_circuit(circuit); MatrixBuilder(graph, circuit)
\* and export_static(), in a fresh process. The connections of the circuit
\* are listed in the order given or in the opposite one. A port without
\* connection makes _compile_pattern raise KeyError.
NewMatrixBuilder ==
    /\ \E conns \in {circuit.connections, Reverse(circuit.connections)} :
        LET circ == [circuit EXCEPT !.connections = conns]
            graph == from_circuit(circ)
            ground == choose_ground(graph)
        IN  /\ circuit' = circ
            /\ nets' = graph.nets
            /\ connections' = graph.connections
            /\ \E ni \in ComputeNodeIndex(graph.nets, ground) :
                /\ node_index_cache' = Some(ni)
                /\ ret' = Some(ni)
                /\ ret_arg' = ground
                /\ IF compile_pattern_raises(circ, graph)
                   THEN pc' = "KeyError" /\ static_pkg' = [ground_net |-> "None"]
                   ELSE pc' = "built" /\ static_pkg' = StaticPackage(circ, graph, ground, ni)
    /\ assembly' = NoAssembly
    /\ UNCHANGED <<sweep_config, tasks, next_task, workers, futures, yielded, entries,
                   errors, resolveVars, otherVars>>

\* builder.build_global_Y(circuit, NumericContext(freq, params)) up to the
\* elimination of the reference, and y_stamp of every component for the net
\* indices of its ports.
BuildGlobalY ==
    /\ pc = "built"
    /\ \E params \in PatternParams :
        LET comps == circuit.components
            stamps == [c \in DOMAIN comps |->
                        y_stamp(comps[c],
                                CompNets(comps[c], connections, static_pkg.node_index_full),
                                1, params)]
        IN  IF \E c \in DOMAIN comps : get_ymatrix_raises(comps[c], 1, params)
            THEN assembly' = [done |-> TRUE, raised |-> TRUE, params |-> params,
                              stamps |-> stamps]
            ELSE \E g \in {GlobalY(static_pkg, circuit, 1, params)} :
                 assembly' = [done |-> TRUE, raised |-> FALSE, params |-> params,
                              stamps |-> stamps,
                              data |-> g.data, Y_full |-> g.full,
                              node_index_full |-> static_pkg.node_index_full,
                              ref_name |-> RefName(static_pkg.ground_net),
                              Y |-> g.Y, node_index |-> g.node_index]
    /\ UNCHANGED <<graphVars, resolveVars, sweepVars, otherVars>>

PatternNext ==
    \/ NewMatrixBuilder
    \/ BuildGlobalY

\* a circuit, no builder yet
InitPattern == PatternInit /\ GraphInit /\ ResolveIdle /\ OthersIdle

SpecPattern == InitPattern /\ [][PatternNext]_vars

(***************************************************************************)
(* The legacy sweep (evaluation/sweep.py): sweep, evaluate_batch,           *)
(* _evaluate_point                                                         *)
(***************************************************************************)
\* batch_size, 100 in the source
BatchSize == 2
\* Frequencies of the legacy sweep are integers in units of 1e-10 Hz, so that
\* round(f, 9) rounds to a multiple of RoundUnit (none of the frequencies
\* swept lies half-way between two).
RoundUnit == 10
round9(f) == ((f + RoundUnit \div 2) \div RoundUnit) * RoundUnit

\* circuit.evaluate(freq, local_params) of the sanitized clone: it raises for
\* a parameter value it cannot use (0 stands for such a value), else it gives
\* the evaluation result of the point
LegacyEvaluateRaises(freq, local_params) ==
    \E k \in DOMAIN local_params : local_params[k].expr = 0
LegacyEvaluate(freq, local_params) == [s_matrix |-> <<freq, local_params>>]

\* evaluation_result = None, error = None
NoEvaluation == [s_matrix |-> <<>>]

\* _evaluate_point: local_params = {keys[i]: param_values[i]}, an
\* EvaluationPoint with the result or with str(e)
EvaluatePoint(freq, param_values, keys) ==
    LET local_params == [i \in DOMAIN keys |-> Bind(keys[i], param_values[i])]
    IN  IF LegacyEvaluateRaises(freq, local_params)
        THEN [frequency |-> freq, parameters |-> local_params, error |-> "raised",
              evaluation_result |-> NoEvaluation]
        ELSE [frequency |-> freq, parameters |-> local_params, error |-> "",
              evaluation_result |-> LegacyEvaluate(freq, local_params)]

\* evaluate_batch: the points of the batch in order
evaluate_batch(batch_points, keys) ==
    [k \in DOMAIN batch_points |->
        EvaluatePoint(batch_points[k][1], batch_points[k][2], keys)]

\* tuple(sorted(point.parameters.items())): by parameter name
SortedItems(parameters) ==
    LET names == SelectSeq(ParamOrder, LAMBDA n : n \in KeySet(parameters))
    IN  [i \in DOMAIN names |-> <<names[i], Lookup(parameters, names[i])>>]

\* key = (round(point.frequency, 9), tuple(sorted(point.parameters.items())))
PointKey(point) == <<round9(point.frequency), SortedItems(point.parameters)>>

\* the loop over the points of one future: results[key] = None and a message
\* for a failed point, results[key] = point.evaluation_result for the others
RECURSIVE StorePoints(_, _)
StorePoints(points, got) ==
    IF points = <<>> THEN got
    ELSE LET point == Head(points)
         IN  StorePoints(Tail(points),
                IF point.error # ""
                THEN [results |-> Update(got.results,
                                         <<Bind(PointKey(point), NoEvaluation)>>),
                      errors |-> Append(got.errors,
                                    <<point.frequency, point.parameters, point.error>>)]
                ELSE [results |-> Update(got.results,
                                         <<Bind(PointKey(point), point.evaluation_result)>>),
                      errors |-> got.errors])

\* batches = [sweep_points[i:i+batch_size] for i in range(0, len, batch_size)]
Batches(sweep_points) ==
    [b \in 1..((Len(sweep_points) + BatchSize - 1) \div BatchSize) |->
        SubSeq(sweep_points, (b - 1) * BatchSize + 1,
               IF b * BatchSize < Len(sweep_points) THEN b * BatchSize
               ELSE Len(sweep_points))]

\* The configurations given to the legacy sweep: one frequency entry (also
\* one whose frequencies repeat, and one whose frequencies differ by less
\* than 1e-9) and parameter entries (also one whose values repeat, and one
\* with a value evaluate rejects).
LegacyFreqs ==
    {[range |-> <<10, 30>>, points |-> n] : n \in 1..(MaxPoints + 1)}
        \cup {[range |-> <<10, 10>>, points |-> 2], [range |-> <<10, 14>>, points |-> 2]}
LegacyParams ==
    {<<>>,
     <<Bind("R", <<1, 2>>)>>,
     <<Bind("R", <<1, 1>>)>>,
     <<Bind("R", <<0, 1>>)>>,
     <<Bind("R", <<1, 2>>), Bind("a_val", <<1, 3>>)>>}

LegacyInit ==
    \E f \in LegacyFreqs, ps \in LegacyParams :
        legacy = [pc |-> "called", freq |-> f, param_sweeps |-> ps,
                  keys |-> <<>>, sweep_points |-> <<>>, batches |-> <<>>,
                  futures |-> <<>>, collected |-> 0, results |-> <<>>, errors |-> <<>>,
                  stats |-> 0]

\* sweep up to the submission of the batches
LegacySweepBegin ==
    /\ legacy.pc = "called"
    /\ \E freq_sweep \in {linspace(legacy.freq.range[1], legacy.freq.range[2],
                                     legacy.freq.points)} :
       \E values_product \in {product([k \in DOMAIN legacy.param_sweeps |->
                                            legacy.param_sweeps[k].expr])} :
       \E sweep_points \in {Concat([i \in DOMAIN freq_sweep |->
                                [j \in DOMAIN values_product |->
                                    <<freq_sweep[i], values_product[j]>>]])} :
       \E batches \in {Batches(sweep_points)} :
            legacy' = [legacy EXCEPT !.pc = "pool",
                                     !.keys = KeysOf(legacy.param_sweeps),
                                     !.sweep_points = sweep_points,
                                     !.batches = batches,
                                     !.futures = [b \in DOMAIN batches |->
                                                    [done |-> FALSE, points |-> <<>>]]]
    /\ UNCHANGED <<graphVars, resolveVars, sweepVars, patternVars, symbolic, frontend>>

\* a worker process runs evaluate_batch on batch b
EvaluateBatch(b) ==
    /\ legacy.pc = "pool"
    /\ ~legacy.futures[b].done
    /\ \E points \in {evaluate_batch(legacy.batches[b], legacy.keys)} :
            legacy' = [legacy EXCEPT !.futures[b] = [done |-> TRUE, points |-> points]]
    /\ UNCHANGED <<graphVars, resolveVars, sweepVars, patternVars, symbolic, frontend>>

\* one turn of the loop over futures: future.result(), then its points
LegacyCollect ==
    /\ legacy.pc = "pool"
    /\ legacy.collected < Len(legacy.futures)
    /\ legacy.futures[legacy.collected + 1].done
    /\ \E got \in {StorePoints(legacy.futures[legacy.collected + 1].points,
                                 [results |-> legacy.results, errors |-> legacy.errors])} :
            legacy' = [legacy EXCEPT !.collected = @ + 1,
                                     !.results = got.results,
                                     !.errors = got.errors]
    /\ UNCHANGED <<graphVars, resolveVars, sweepVars, patternVars, symbolic, frontend>>

\* stats = {"points": len(sweep_points), ...}; return SweepResult(...)
LegacyReturn ==
    /\ legacy.pc = "pool"
    /\ legacy.collected = Len(legacy.futures)
    /\ legacy' = [legacy EXCEPT !.pc = "returned", !.stats = Len(legacy.sweep_points)]
    /\ UNCHANGED <<graphVars, resolveVars, sweepVars, patternVars, symbolic, frontend>>

LegacyNext ==
    \/ LegacySweepBegin
    \/ \E b \in DOMAIN legacy.futures : EvaluateBatch(b)
    \/ LegacyCollect
    \/ LegacyReturn

\* a circuit and a configuration, sweep just called
InitLegacy ==
    /\ LegacyInit /\ GraphInit /\ ResolveIdle /\ SweepIdle /\ PatternIdle
    /\ symbolic = NotCalled /\ frontend = NotCalled

SpecLegacy == InitLegacy /\ [][LegacyNext]_vars

(***************************************************************************)
(* The symbolic resolver (symbolic/dependency_resolver.py,                 *)
(* symbolic/evaluator.py)                                                  *)
(*                                                                         *)
(* param_dict is an insertion-ordered dict: a sequence of [key, expr]; an  *)
(* expression is the string "s1 + s2 + k": [k |-> k, symbols |-> {s1, s2}].*)
(***************************************************************************)
SymbolicNames == <<"a", "b", "c">>

SymKeys(pd) == [i \in DOMAIN pd |-> pd[i].key]
SymExpr(pd, key) == (CHOOSE i \in DOMAIN pd : pd[i].key = key)
SymExprOf(pd, key) == pd[SymExpr(pd, key)].expr

\* build_dependency_graph of symbolic/dependency_resolver.py: the identifiers of each expression that are keys
symbolic_build_dependency_graph(pd) ==
    [key \in Range(SymKeys(pd)) |-> SymExprOf(pd, key).symbols \cap Range(SymKeys(pd))]

\* in_degree and reverse_map after the loop over graph.items()
InDegree(graph) == [dep \in DOMAIN graph |-> Cardinality({node \in DOMAIN graph : dep \in graph[node]})]
ReverseMap(graph) == [dep \in DOMAIN graph |-> {node \in DOMAIN graph : dep \in graph[node]}]

\* one pass of for dependent in reverse_map.get(node, []) over the dependents
\* in the order deps_order
RECURSIVE Release(_, _)
Release(deps_order, st) ==
    IF deps_order = <<>> THEN st
    ELSE Only({Release(Tail(deps_order),
                       [in_degree |-> in_degree,
                        queue |-> IF in_degree[Head(deps_order)] = 0
                                  THEN Append(st.queue, Head(deps_order)) ELSE st.queue])
               : in_degree \in {[st.in_degree EXCEPT ![Head(deps_order)] = @ - 1]}})

\* evaluate_parameter on "s1 + s2 + k"
SymKeyError(expr, resolved) == ~(expr.symbols \subseteq DOMAIN resolved)
evaluate_parameter(expr, resolved) == expr.k + SumOver(expr.symbols, resolved)

\* dict assignment resolved[key] = value on a function
SymPut(resolved, key, value) ==
    [x \in DOMAIN resolved \cup {key} |-> IF x = key THEN value ELSE resolved[x]]

SymbolicParamDicts ==
    UNION {{[i \in 1..n |-> [key |-> SymbolicNames[i], expr |-> [k |-> 1, symbols |-> syms[i]]]]
            : syms \in [1..n -> SUBSET Range(SymbolicNames)]} : n \in 1..Len(SymbolicNames)}

SymbolicInit ==
    \E pd \in SymbolicParamDicts :
        symbolic = [pc |-> "called", param_dict |-> pd, graph |-> <<>>,
                    in_degree |-> <<>>, reverse_map |-> <<>>, queue |-> <<>>,
                    sorted_nodes |-> <<>>, resolved |-> <<>>]

\* resolve_all_parameters up to the while loop of topological_sort
TopologicalSortBegin ==
    /\ symbolic.pc = "called"
    /\ \E graph \in {symbolic_build_dependency_graph(symbolic.param_dict)} :
       \E in_degree \in {InDegree(graph)} :
            symbolic' = [symbolic EXCEPT
                !.pc = "sorting",
                !.graph = graph,
                !.in_degree = in_degree,
                !.reverse_map = ReverseMap(graph),
                !.queue = SelectSeq(SymKeys(symbolic.param_dict),
                                    LAMBDA node : in_degree[node] = 0)]
    /\ UNCHANGED <<graphVars, resolveVars, sweepVars, patternVars, legacy, frontend>>

\* one turn of while queue; a set is iterated in an order of its own
TopologicalSortStep ==
    /\ symbolic.pc = "sorting"
    /\ symbolic.queue # <<>>
    /\ \E node \in {Head(symbolic.queue)} :
       \E deps_order \in Orderings(symbolic.reverse_map[node]) :
       \E st \in {Release(deps_order, [in_degree |-> symbolic.in_degree,
                                        queue |-> Tail(symbolic.queue)])} :
            symbolic' = [symbolic EXCEPT
                !.sorted_nodes = Append(@, node),
                !.in_degree = st.in_degree,
                !.queue = st.queue]
    /\ UNCHANGED <<graphVars, resolveVars, sweepVars, patternVars, legacy, frontend>>

\* if len(sorted_nodes) != len(graph): raise Exception("Circular dependency ...")
TopologicalSortEnd ==
    /\ symbolic.pc = "sorting"
    /\ symbolic.queue = <<>>
    /\ symbolic' = [symbolic EXCEPT
            !.pc = IF Len(symbolic.sorted_nodes) # Cardinality(DOMAIN symbolic.graph)
                   THEN "circular" ELSE "evaluating"]
    /\ UNCHANGED <<graphVars, resolveVars, sweepVars, patternVars, legacy, frontend>>

\* one turn of for key in sorted_keys
EvaluateParameter ==
    /\ symbolic.pc = "evaluating"
    /\ Cardinality(DOMAIN symbolic.resolved) < Len(symbolic.sorted_nodes)
    /\ \E key \in {symbolic.sorted_nodes[Cardinality(DOMAIN symbolic.resolved) + 1]} :
       \E expr \in {SymExprOf(symbolic.param_dict, key)} :
            symbolic' = IF SymKeyError(expr, symbolic.resolved)
                        THEN [symbolic EXCEPT !.pc = "KeyError"]
                        ELSE [symbolic EXCEPT !.resolved =
                                SymPut(@, key, evaluate_parameter(expr, symbolic.resolved))]
    /\ UNCHANGED <<graphVars, resolveVars, sweepVars, patternVars, legacy, frontend>>

\* return resolved
ResolveAllReturn ==
    /\ symbolic.pc = "evaluating"
    /\ Cardinality(DOMAIN symbolic.resolved) = Len(symbolic.sorted_nodes)
    /\ symbolic' = [symbolic EXCEPT !.pc = "resolved"]
    /\ UNCHANGED <<graphVars, resolveVars, sweepVars, patternVars, legacy, frontend>>

SymbolicNext ==
    \/ TopologicalSortBegin
    \/ TopologicalSortStep
    \/ TopologicalSortEnd
    \/ EvaluateParameter
    \/ ResolveAllReturn

\* a parameter dict, resolve_all_parameters just called
InitSymbolic ==
    /\ SymbolicInit /\ GraphInit /\ ResolveIdle /\ SweepIdle /\ PatternIdle
    /\ legacy = NotCalled /\ frontend = NotCalled

SpecSymbolic == InitSymbolic /\ [][SymbolicNext]_vars

(***************************************************************************)
(* The frontend: StateManager (frontend/models/state.py) and               *)
(* SimulationController (frontend/controllers/simulation_controller.py)    *)
(*                                                                         *)
(* files is what the two input paths hold: "missing" (a path that does not *)
(* exist), "bad" (files that fail to parse or to validate) or a version    *)
(* that simulates.  A thread is [pc, skipped, result]; its pc is the line   *)
(* of run_simulation it executes next.                                     *)
(***************************************************************************)
MaxThreads == 2
\* Python's None among values that are records
PyNone == [none |-> TRUE]
FileContents == {"missing", "bad", "v1", "v2"}

\* hash_file: None for a missing path, else the digest of the content
hash_file(content) == IF content = "missing" THEN PyNone ELSE [sha256 |-> content]

\* StateManager.needs_simulation: the verdict and the hashes kept
needs_simulation(last_hash, content) ==
    IF hash_file(content) # last_hash
    THEN [needed |-> TRUE, last_hash |-> hash_file(content)]
    ELSE [needed |-> FALSE, last_hash |-> last_hash]

\* parse_netlist, circuit.validate, yaml load and sweep on the files
SimulationRaises(content) == content \in {"missing", "bad"}
SweepResultOf(content) == [of |-> hash_file(content)]

\* StateManager() and SimulationController(state, ...) constructed
FrontendInit ==
    \E content \in FileContents :
        frontend = [pc |-> "ui", files |-> content, running |-> FALSE,
                    simulation_results |-> PyNone, last_hash |-> PyNone,
                    last_log |-> "", threads |-> <<>>]

FrameFrontend == UNCHANGED <<graphVars, resolveVars, sweepVars, patternVars, legacy, symbolic>>

\* SimulationController.start, called by the Run Simulation button
Start ==
    /\ frontend.pc = "ui"
    /\ IF frontend.running
       THEN frontend' = [frontend EXCEPT !.last_log = "Simulation is already running."]
       ELSE /\ Len(frontend.threads) < MaxThreads
            /\ frontend' = [frontend EXCEPT
                    !.threads = Append(@, [pc |-> 22, skipped |-> FALSE, result |-> PyNone])]
    /\ FrameFrontend

\* the user saves other input files, or picks other paths
EditFiles ==
    /\ frontend.pc = "ui"
    /\ \E content \in FileContents \ {frontend.files} :
            frontend' = [frontend EXCEPT !.files = content]
    /\ FrameFrontend

\* run_simulation line 22: self.state.simulation_results = None
ClearResults(t) ==
    /\ frontend.threads[t].pc = 22
    /\ frontend' = [frontend EXCEPT !.simulation_results = PyNone, !.threads[t].pc = 23]
    /\ FrameFrontend

\* lines 23-25: running = True, progress, add_log
SetRunning(t) ==
    /\ frontend.threads[t].pc = 23
    /\ frontend' = [frontend EXCEPT !.running = TRUE, !.last_log = "Simulation started.",
                                    !.threads[t].pc = 27]
    /\ FrameFrontend

\* lines 27-30: the two os.path.exists tests
CheckPaths(t) ==
    /\ frontend.threads[t].pc = 27
    /\ frontend' = [frontend EXCEPT
            !.threads[t].pc = IF frontend.files = "missing" THEN 54 ELSE 32]
    /\ FrameFrontend

\* lines 32-34: needs_simulation; unchanged inputs log and return
NeedsSimulation(t) ==
    /\ frontend.threads[t].pc = 32
    /\ \E verdict \in {needs_simulation(frontend.last_hash, frontend.files)} :
            frontend' = IF verdict.needed
                        THEN [frontend EXCEPT !.last_hash = verdict.last_hash,
                                              !.threads[t].pc = 36]
                        ELSE [frontend EXCEPT
                                !.last_log = "Input files unchanged, skipping re-simulation.",
                                !.threads[t].pc = 56,
                                !.threads[t].skipped = TRUE]
    /\ FrameFrontend

\* lines 36-47: load, validate and sweep; an exception goes to line 53
Simulate(t) ==
    /\ frontend.threads[t].pc = 36
    /\ frontend' = IF SimulationRaises(frontend.files)
                   THEN [frontend EXCEPT !.threads[t].pc = 54]
                   ELSE [frontend EXCEPT !.threads[t].pc = 48,
                                         !.threads[t].result = SweepResultOf(frontend.files)]
    /\ FrameFrontend

\* lines 48-52: simulation_results = result, add_log, ui_callback_update
StoreResults(t) ==
    /\ frontend.threads[t].pc = 48
    /\ frontend' = [frontend EXCEPT !.simulation_results = frontend.threads[t].result,
                                    !.last_log = "Simulation completed successfully.",
                                    !.threads[t].pc = 56]
    /\ FrameFrontend

\* lines 53-54: except Exception: add_log
LogFailure(t) ==
    /\ frontend.threads[t].pc = 54
    /\ frontend' = [frontend EXCEPT !.last_log = "Simulation failed", !.threads[t].pc = 56]
    /\ FrameFrontend

\* lines 56-57: finally: running = False, progress = 1.0
ClearRunning(t) ==
    /\ frontend.threads[t].pc = 56
    /\ frontend' = [frontend EXCEPT !.running = FALSE, !.threads[t].pc = 58]
    /\ FrameFrontend

\* line 58: time.sleep(0.2), then the thread is over
ThreadEnd(t) ==
    /\ frontend.threads[t].pc = 58
    /\ frontend' = [frontend EXCEPT !.threads[t].pc = 0]
    /\ FrameFrontend

FrontendNext ==
    \/ Start
    \/ EditFiles
    \/ \E t \in DOMAIN frontend.threads :
        \/ ClearResults(t)
        \/ SetRunning(t)
        \/ CheckPaths(t)
        \/ NeedsSimulation(t)
        \/ Simulate(t)
        \/ StoreResults(t)
        \/ LogFailure(t)
        \/ ClearRunning(t)
        \/ ThreadEnd(t)

\* the application window is up, nothing simulated yet
InitFrontend ==
    /\ FrontendInit /\ GraphInit /\ ResolveIdle /\ SweepIdle /\ PatternIdle
    /\ legacy = NotCalled /\ symbolic = NotCalled

SpecFrontend == InitFrontend /\ [][FrontendNext]_vars

(***************************************************************************)
(* Claims on NetlistGraph                                                  *)
(***************************************************************************)
\* The map a graph holding the nets S must return for ground net g: g at 0,
\* the other nets in lexicographic order from 1.
GroundFirstSorted(S, g) == Enumerate(<<g>> \o SortedNets(S \ {g}))

\* C9: node_index(ground_net) with ground_net one of the graph's nets maps
\* ground_net to 0 and the remaining nets to 1..N-1 in lexicographic order.
C9_GroundZeroRestSorted ==
    (ret.some /\ ret_arg # None /\ ret_arg \in nets)
        => ret.map = GroundFirstSorted(nets, ret_arg)

\* C10: node_index(g) returns a map that a freshly built graph holding the
\* same connections can return for the same g, whatever earlier calls asked.
C10_PureFunctionOfState ==
    ret.some
        => ret.map \in ComputeNodeIndex({net_name(c) : c \in Range(connections)}, ret_arg)

(***************************************************************************)
(* Claims on the resolver: definitions                                     *)
(***************************************************************************)
\* The dependency relation in the words of the specification: key depends on
\* every identifier of its expression that is a key of the mapping.
Refers(pd, key) ==
    LET e == Lookup(pd, key) IN IF e.kind = "num" THEN {} ELSE e.refs \cap KeySet(pd)

RECURSIVE ReachFrom(_, _, _)
ReachFrom(pd, S, n) ==
    IF n = 0 THEN S
    ELSE ReachFrom(pd, S \cup UNION {Refers(pd, k) : k \in S}, n - 1)

\* key refers to itself through one or more bindings
OnCycle(pd, key) == key \in ReachFrom(pd, Refers(pd, key), Len(pd))
HasCycle(pd) == \E key \in KeySet(pd) : OnCycle(pd, key)

\* every value parses and mentions bound names only
Evaluable(pd) ==
    \A i \in DOMAIN pd :
        LET e == pd[i].expr
        IN  e.form # "bad" /\ (e.kind = "num" \/ e.refs \subseteq KeySet(pd))

AloneEntry(task) ==
    evaluate_point(static_pkg, circuit, task, {},
                   CHOOSE ord \in Orderings(KeySet(PointExprs(circuit, task))) : TRUE).entry

PointRaises(i) ==
    LET task == tasks[i]
        exprs == PointExprs(circuit, task)
        r == resolve(exprs, CHOOSE ord \in Orderings(KeySet(exprs)) : TRUE)
        comps == circuit.components
        specs == circuit.external_ports
    IN  \/ r.status # "ok"
        \/ \E c \in DOMAIN comps : ResistorRaises(r.resolved)
        \/ \E k \in DOMAIN specs : get_impedance_raises(specs[k].impedance, r.resolved)
        \/ \E g \in {GlobalY(static_pkg, circuit, task.freq, r.resolved)} :
            /\ g.int_idx # <<>>
            /\ ~futures[i].lookup.hit
            /\ SpluRaises(g.Y_ii)

\* C3: a failing point never aborts the sweep: every task yields exactly one
\* record, in task order; a point that raises yields a record with s_matrix
\* None and a non-empty message in the error list; the number of entries
\* equals the number of tasks.
C3_EveryTaskOneRecord ==
    pc = "done" =>
        /\ Len(entries) = Len(tasks)
        /\ \A i \in DOMAIN tasks :
            /\ i \in DOMAIN entries
            /\ entries[i].frequency = tasks[i].freq
            /\ entries[i].parameters = tasks[i].local_overrides
            /\ PointRaises(i) =>
                /\ entries[i].s_matrix = NoneS
                /\ futures[i].error.kind # "" /\ futures[i].error.text # ""
                /\ futures[i].error \in Range(errors)

\* C3 witness: a finished sweep in which a point failed and a later point
\* got its S matrix.
C3_Witness ==
    /\ pc = "done"
    /\ \E i, j \in DOMAIN entries :
        i < j /\ PointRaises(i) /\ entries[i].s_matrix = NoneS /\ entries[j].s_matrix.some

\* A sweep specification with one frequency entry (range and points given)
\* and parameter entries of distinct names, each with its value list.
FreqEntries(cfg) == SelectSeq(cfg, LAMBDA en : en.param = "f")
ParamEntries(cfg) == SelectSeq(cfg, LAMBDA en : en.param # "f")
WellFormed(cfg) ==
    /\ Len(FreqEntries(cfg)) = 1
    /\ FreqEntries(cfg)[1].range # <<>> /\ FreqEntries(cfg)[1].points # -1
    /\ \A k \in DOMAIN ParamEntries(cfg) : ParamEntries(cfg)[k].has_values
    /\ \A k, l \in DOMAIN ParamEntries(cfg) :
            k # l => ParamEntries(cfg)[k].param # ParamEntries(cfg)[l].param

\* the frequency list of a frequency entry
FrequencyList(fe) ==
    IF fe.scale = "log" THEN logspace(fe.range[1], fe.range[2], fe.points)
    ELSE linspace(fe.range[1], fe.range[2], fe.points)

RECURSIVE ProductOfLengths(_)
ProductOfLengths(pes) ==
    IF pes = <<>> THEN 1 ELSE Len(Head(pes).values) * ProductOfLengths(Tail(pes))

\* the key of a record: its frequency and its value for every swept name
RecordKey(entry) ==
    <<entry.frequency,
      [n \in KeySet(entry.parameters) |-> Lookup(entry.parameters, n)]>>

\* C4: for a frequency entry with N points and parameter entries with value
\* lists V1..Vk, sweep returns N*|V1|*...*|Vk| records, and the set of
\* (frequency, parameter values) keys of the records is the product of the
\* frequency list with the value lists.
C4_CartesianProduct ==
    (pc = "done" /\ WellFormed(sweep_config)) =>
        LET fe == FreqEntries(sweep_config)[1]
            pes == ParamEntries(sweep_config)
            names == {pes[k].param : k \in DOMAIN pes}
            valuesOf(n) == Range(pes[CHOOSE k \in DOMAIN pes : pes[k].param = n].values)
        IN  /\ Len(entries) = fe.points * ProductOfLengths(pes)
            /\ {RecordKey(entries[i]) : i \in DOMAIN entries}
                    = {<<f, m>> : f \in Range(FrequencyList(fe)),
                                  m \in {m \in [names -> UNION {valuesOf(n) : n \in names}] :
                                            \A n \in names : m[n] \in valuesOf(n)}}

\* C4 witness: a finished sweep of a specification with two parameter
\* entries of two values each.
C4_Witness ==
    /\ pc = "done" /\ WellFormed(sweep_config)
    /\ Len(ParamEntries(sweep_config)) = 2
    /\ Len(entries) = 4
    /\ \E i, j \in DOMAIN entries :
            /\ entries[i].parameters[1].expr # entries[j].parameters[1].expr
            /\ entries[i].parameters[2].expr # entries[j].parameters[2].expr

\* the positions of the failed records, ascending
FailedRecords == Ascending({i \in DOMAIN entries : entries[i].s_matrix = NoneS})

C6_CycleRaisesBeforeDispatch ==
    (pc # "start" /\ pc # "idle" /\ HasCycle(resolve_arg)) =>
        /\ outcome.status = "ParameterError"
        /\ outcome.resolved = Unresolved
        /\ pc = "raised"
        /\ tasks = <<>> /\ next_task = 1

Reorderings(pd) ==
    {[i \in DOMAIN pd |-> pd[perm[i]]] : perm \in Orderings(DOMAIN pd)}

\* C8: for two mappings with the same bindings in different insertion orders
\* resolve returns the same key-to-value map for both or raises for both.
C8_InsertionOrderIndependent ==
    outcome.status # "none"
        => \A pd \in Reorderings(resolve_arg) : \A ord \in Orderings(KeySet(pd)) :
                LET r == resolve(pd, ord)
                IN  r.status = outcome.status /\ r.resolved = outcome.resolved

\* C8 witness: a successful call on a mapping in which a key is inserted
\* before a key it depends on.
C8_Witness ==
    /\ outcome.status = "ok"
    /\ \E i, j \in DOMAIN resolve_arg :
        i < j /\ resolve_arg[j].key \in Refers(resolve_arg, resolve_arg[i].key)
              /\ Lookup(param_dict, resolve_arg[i].key).kind = "expr"

(***************************************************************************)
(* Claims about the node-index map and the stamp pattern                   *)
(***************************************************************************)
\* the nets of the connections the graph holds
HeldNets == {net_name(c) : c \in Range(connections)}

\* C11: whatever add_connection and remove_connection calls came before
\* (duplicates included), the map node_index returns has as keys exactly the
\* nets of the connections held, and its indices are distinct and fill
\* [0, N) with N = dimension().
C11_KeysAreHeldNetsContiguous ==
    ret.some =>
        /\ Keys(ret.map) = HeldNets
        /\ \A a, b \in Keys(ret.map) : ret.map[a] = ret.map[b] => a = b
        /\ {ret.map[n] : n \in Keys(ret.map)} = 0..(dimension - 1)

\* node_index has returned for a graph that holds a connection twice and
\* connections to two different nets
C11_Witness ==
    /\ ret.some
    /\ \E i, j \in DOMAIN connections : i # j /\ connections[i] = connections[j]
    /\ Cardinality(HeldNets) = 2
    /\ dimension = 2

\* number of ports of component c of the circuit, and the nets that the
\* connections held by the graph give to its port number a
NPorts(c) == Len(circuit.components[c].ports)
PortNets(c, a) ==
    {x[3] : x \in {y \in Range(connections) :
                    /\ y[1] = circuit.components[c].id
                    /\ y[2] = circuit.components[c].ports[a]}}

\* C12: in the compiled pattern the slice of component i has length
\* n_ports(i)^2; the slices, in component order, start at 0, follow one
\* another without gap or overlap and end at nnz; and within slice i the entry
\* at offset a*n+b has as row the node index of the net of port a and as column
\* that of the net of port b, ports in the component's own order.
C12_SlicesTileThePattern ==
    pc = "built" =>
        LET sl == static_pkg.slices
            rows == static_pkg.rows
            cols == static_pkg.cols
            NI == node_index_cache.map
        IN  /\ DOMAIN sl = DOMAIN circuit.components
            /\ Len(cols) = Len(rows)
            /\ sl[Len(sl)].stop = Len(rows)
            /\ \A c \in DOMAIN sl :
                /\ sl[c].stop - sl[c].start = NPorts(c) * NPorts(c)
                /\ sl[c].start = IF c = 1 THEN 0 ELSE sl[c - 1].stop
                /\ \A a, b \in 0..(NPorts(c) - 1) :
                    /\ rows[sl[c].start + a * NPorts(c) + b + 1]
                            \in {NI[n] : n \in PortNets(c, a + 1)}
                    /\ cols[sl[c].start + a * NPorts(c) + b + 1]
                            \in {NI[n] : n \in PortNets(c, b + 1)}

\* a pattern was compiled for a circuit with a three-port and a two-port
\* component
C12_Witness ==
    /\ pc = "built"
    /\ \E c, d \in DOMAIN circuit.components : NPorts(c) = 3 /\ NPorts(d) = 2
    /\ Len(static_pkg.rows) = 13

\* C13: for every component whose y_stamp returns, the rows and cols stored
\* in its slice of the pattern are the rows and cols y_stamp returns for the
\* net indices of its ports, so that the k-th value of the flattened Y written
\* into the slice lands where y_stamp puts its k-th value.
C13_PatternMatchesYStamp ==
    (pc = "built" /\ assembly.done) =>
        \A c \in DOMAIN circuit.components :
            ~assembly.stamps[c].raised =>
                LET sl == static_pkg.slices[c]
                IN  /\ SubSeq(static_pkg.rows, sl.start + 1, sl.stop) = assembly.stamps[c].rows
                    /\ SubSeq(static_pkg.cols, sl.start + 1, sl.stop) = assembly.stamps[c].cols
                    /\ Len(assembly.stamps[c].data) = sl.stop - sl.start

\* build_global_Y and y_stamp have run for a component whose two ports are on
\* different nets, behind another component
C13_Witness ==
    /\ pc = "built"
    /\ assembly.done
    /\ ~assembly.raised
    /\ \E c \in DOMAIN circuit.components :
        /\ c > 1
        /\ ~assembly.stamps[c].raised
        /\ assembly.stamps[c].rows # assembly.stamps[c].cols

\* C14: pattern compilation depends on the topology only: a second
\* compilation for the same components, external ports and set of connections
\* (in another process, the connections added in another order) gives the same
\* rows, cols and slices.
C14_RecompilationIdentical ==
    [][(/\ pc = "built"
        /\ pc' = "built"
        /\ circuit'.components = circuit.components
        /\ circuit'.external_ports = circuit.external_ports
        /\ Range(circuit'.connections) = Range(circuit.connections))
       => /\ static_pkg'.rows = static_pkg.rows
          /\ static_pkg'.cols = static_pkg.cols
          /\ static_pkg'.slices = static_pkg.slices]_vars

\* the value at (i, j) of a sparse matrix
At(M, i, j) == IF <<i, j>> \in M.stored THEN M.val[<<i, j>>] ELSE Cx(0)

\* What C15 says of the shape, of the reduced map and of the rows and columns.
ReducedAsClaimed ==
    LET full == assembly.Y_full
        red == assembly.Y
        NI == assembly.node_index_full
        ni == assembly.node_index
    IN  /\ red.dim = full.dim - 1
        /\ Keys(ni) = Keys(NI) \ {static_pkg.ground_net}
        /\ {ni[n] : n \in Keys(ni)} = 0..(full.dim - 2)
        /\ \A a, b \in Keys(ni) :
            /\ ni[a] = ni[b] => a = b
            /\ NI[a] < NI[b] <=> ni[a] < ni[b]
            /\ At(red, ni[a], ni[b]) = At(full, NI[a], NI[b])

\* C15: with a reference net, _eliminate_reference returns a (dim-1) x (dim-1)
\* matrix and a map holding every net but the reference once, indices filling
\* [0, dim-1) in the former relative order, row and column k of the reduced
\* matrix being those of the net mapped to k; and no net whose lower-cased
\* name is gnd remains in the reduced map.
C15_ReferenceEliminated ==
    (pc = "built" /\ assembly.done /\ ~assembly.raised /\ static_pkg.ground_net # None) =>
        /\ ReducedAsClaimed
        /\ \A n \in Keys(assembly.node_index) : Lower(n) # "gnd"

\* the same without the last clause
C15_ButForOtherGrounds ==
    (pc = "built" /\ assembly.done /\ ~assembly.raised /\ static_pkg.ground_net # None) =>
        ReducedAsClaimed

(***************************************************************************)
(* Claims on the sweep: parameters of a point, validation, ports on the    *)
(* reference net, the circuit model, cancellation                          *)
(***************************************************************************)
\* the overrides of a task are numbers and bind R to a resistance
SweepsR(task) ==
    /\ \A k \in DOMAIN task.local_overrides : task.local_overrides[k].expr.kind = "num"
    /\ \E k \in DOMAIN task.local_overrides :
            task.local_overrides[k].key = "R" /\ task.local_overrides[k].expr.k >= 1
\* the sweep values of a task as parameter values
SweepParams(task) ==
    [n \in ParamNames |->
        IF n \in KeySet(task.local_overrides)
        THEN Lookup(task.local_overrides, n).k ELSE NoValue]
\* the Y matrix of a component all of whose resistors, nested ones too, have
\* the resistance params.R
EvaluatedWith(comp, freq, params) ==
    IF comp.type = "subcircuit"
    THEN InterfaceY(comp, GlobalYFrom(comp.static_pkg, comp.nested_model,
                                      PlainData(comp.nested_model, freq, params)))
    ELSE PlainY(comp, freq, params)
\* a completed point that sweeps R, in a netlist without parameters section,
\* does not fail in the resolution of its parameters, and the Y matrix behind
\* its S matrix is assembled from component matrices at the sweep value
OverrideWinsAt(i) ==
    futures[i].done /\ circuit.global_parameters = <<>> /\ SweepsR(tasks[i])
        => /\ futures[i].error.kind # "Param resolution error"
           /\ futures[i].entry.s_matrix.some
                => futures[i].entry.s_matrix.Y =
                    CscData(GlobalYFrom(static_pkg, circuit,
                        Concat([c \in DOMAIN circuit.components |->
                                    EvaluatedWith(circuit.components[c], tasks[i].freq,
                                                  SweepParams(tasks[i]))])).Y)

\* C16: at a sweep point whose overrides bind R, a name that the components
\* bind locally too, every component, the components nested in a subcircuit
\* included, has its Y matrix evaluated with R equal to the sweep value.
C16_SweepOverrideWins ==
    pc \in {"sweeping", "done"} => \A i \in DOMAIN futures : OverrideWinsAt(i)

\* What holds of C16: the same for the circuits without subcircuit.
C16_WithoutSubcircuits ==
    pc \in {"sweeping", "done"}
        /\ (\A c \in DOMAIN circuit.components : circuit.components[c].type # "subcircuit")
        => \A i \in DOMAIN futures : OverrideWinsAt(i)

\* some declared port of some component is named by no connection
SomePortUnconnected ==
    \E c \in DOMAIN circuit.components :
        \E k \in DOMAIN circuit.components[c].ports :
            \A j \in DOMAIN circuit.connections :
                circuit.connections[j][1] # circuit.components[c].id
                    \/ circuit.connections[j][2] # circuit.components[c].ports[k]

\* C17: for a circuit with a declared component port that has no connection,
\* main ends at the validation with the floating-port error, and however the
\* run was started no sweep begins: no task is handed to a worker and no
\* evaluate_point returns.
C17_DanglingPortStopsTheRun ==
    [][SomePortUnconnected =>
        /\ pc = "main" =>
                pc' = "rejected"
                    /\ validate_circuit_structure(circuit) = "Floating port errors"
        /\ pc' \notin {"sweeping", "done"}
        /\ \A w \in DOMAIN workers' : workers'[w].task = 0
        /\ \A i \in DOMAIN futures' : ~futures'[i].done]_vars

\* main has rejected a circuit with an unconnected port
C17_Witness ==
    pc = "rejected" /\ SomePortUnconnected /\ futures = <<>>

\* the net of some external port is no key of the node-index map left by the
\* elimination of the reference
SomePortNetAbsent ==
    \E k \in DOMAIN circuit.external_ports :
        circuit.external_ports[k].net_name \notin Keys(static_pkg.node_index)

\* C18: when the net of an external port is absent from the node-index map
\* after ground elimination, every point evaluated is reported with an error
\* and without S matrix, and so is every record of the result.
C18_AbsentPortNetFailsEveryPoint ==
    pc \in {"sweeping", "done"} /\ SomePortNetAbsent =>
        /\ \A i \in DOMAIN futures :
                futures[i].done =>
                    futures[i].error # NoError /\ ~futures[i].entry.s_matrix.some
        /\ \A i \in DOMAIN entries : ~entries[i].s_matrix.some
        /\ Len(errors) = Len(entries)

\* a sweep of two points or more over a circuit with a port on the reference
\* net has returned, every point failed in y_to_s
C18_Witness ==
    /\ pc = "done" /\ SomePortNetAbsent
    /\ Len(entries) >= 2 /\ Len(errors) = Len(entries)
    /\ \A i \in DOMAIN errors : errors[i].text = "y_to_s"

\* C19: when run_sweep has returned or raised, circuit.global_parameters holds
\* the keys and values it held before the call, and the mapping given to
\* resolve is as it was given.
C19_ModelNotMutated ==
    pc \in {"done", "raised", "KeyError", "cancelled"} =>
        circuit.global_parameters = resolve_arg /\ param_dict = resolve_arg

\* C20: when the driver is cancelled during the sweep, the records of the
\* points it had already collected are kept for the caller.
C20_CompletedRetained ==
    pc = "cancelled" =>
        /\ Len(entries) >= yielded
        /\ \A i \in 1..yielded : entries[i] = futures[i].entry

(***************************************************************************)
(* Claims on the factor cache and on the sweep specification               *)
(***************************************************************************)
\* worker w returns from evaluate_point in this step
Returns(w) == workers[w].task # 0 /\ workers'[w].task = 0

C22_ExactlyOneFrequencyEntry ==
    Len(FreqEntries(sweep_config)) # 1 =>
        /\ pc \notin {"sweeping", "done"}
        /\ \A i \in DOMAIN futures : ~futures[i].done

\* What holds of C22: without frequency entry no point is evaluated.
C22_NoFrequencyNoPoint ==
    FreqEntries(sweep_config) = <<>> => tasks = <<>>

\* C23: the command-line entry point exits with 0 when the sweep completed,
\* errored points or not, and with a nonzero code when the netlist was
\* rejected or the sweep specification was.
C23_ExitCodes ==
    /\ pc = "done" => exit_code = 0
    /\ pc \in {"rejected", "raised"} => exit_code > 0

\* What holds of C23: a completed sweep exits with 0, errored points or not.
C23_CompletedExitsZero ==
    pc = "done" => exit_code = 0

(***************************************************************************)
(* Claims on subcircuits in a sweep                                        *)
(***************************************************************************)
\* a subcircuit whose interface names a net the nested circuit does not have
BadInterface(comp) ==
    /\ comp.type = "subcircuit"
    /\ \E k \in DOMAIN comp.interface_map :
            comp.interface_map[k] \notin
                {net_name(x) : x \in Range(comp.nested_model.connections)}
HasBadInterface ==
    \E c \in DOMAIN circuit.components : BadInterface(circuit.components[c])
\* the sweep values of task i are numbers
SweptNumbers(i) ==
    \A k \in DOMAIN tasks[i].local_overrides : tasks[i].local_overrides[k].expr.kind = "num"

\* C24: in the sweep of a circuit with such a subcircuit, a point fails with
\* the error get_ymatrix raised, as an evaluation error of that point, with
\* a record without S matrix, and the sweep goes on to a record per point.
C24_MappingErrorIsThePointsError ==
    pc \in {"sweeping", "done"} /\ HasBadInterface =>
        /\ \A i \in DOMAIN futures :
                futures[i].done /\ SweptNumbers(i) =>
                    /\ futures[i].error =
                            ErrorMessage("Evaluation error", tasks[i].freq, "get_ymatrix")
                    /\ ~futures[i].entry.s_matrix.some
        /\ pc = "done" => Len(entries) = Len(tasks)

\* What holds of C24 in the sweep: every point has a record with an error
\* and without S matrix, and the sweep goes on to the other points.
C24_PointFailsSweepGoesOn ==
    pc \in {"sweeping", "done"} /\ HasBadInterface =>
        /\ \A i \in DOMAIN futures :
                futures[i].done =>
                    futures[i].error # NoError /\ ~futures[i].entry.s_matrix.some
        /\ pc = "done" => Len(entries) = Len(tasks) /\ Len(errors) = Len(tasks)

\* What holds of C24 in build_global_Y: get_ymatrix of the subcircuit raises.
C24_GetYmatrixRaises ==
    assembly.done /\ HasBadInterface => assembly.raised

\* the parameter values a component binds itself
OwnParams(comp) == [Unresolved EXCEPT !["R"] = Lookup(comp.params, "R").k]

\* C28: at a point that does not sweep R, the Y matrix behind the S matrix
\* is assembled from the matrix of each component at its own local R.
C28_OwnLocalBinding ==
    pc \in {"sweeping", "done"}
        /\ (\A c \in DOMAIN circuit.components : circuit.components[c].type = "resistor")
        => \A i \in DOMAIN futures :
            futures[i].done /\ futures[i].entry.s_matrix.some
                /\ "R" \notin KeySet(tasks[i].local_overrides)
                => futures[i].entry.s_matrix.Y =
                    CscData(GlobalYFrom(static_pkg, circuit,
                        Concat([c \in DOMAIN circuit.components |->
                                    PlainY(circuit.components[c], tasks[i].freq,
                                           OwnParams(circuit.components[c]))])).Y)

\* row and column k of the matrix handed to y_to_s for point i are those of
\* the net of the k-th external port
RowsBelongToPorts(i) ==
    /\ Len(futures[i].entry.s_matrix.idx) = Len(circuit.external_ports)
    /\ \A k \in DOMAIN circuit.external_ports :
            futures[i].entry.s_matrix.idx[k] =
                static_pkg.node_index[circuit.external_ports[k].net_name]

\* C27: for every point evaluated with success the matrix handed to y_to_s
\* has one row and column per external port, the k-th being that of the net
\* of the k-th port declared, with internal nets and without.
C27_RowsBelongToPorts ==
    pc \in {"sweeping", "done"} =>
        \A i \in DOMAIN futures :
            futures[i].done /\ futures[i].entry.s_matrix.some => RowsBelongToPorts(i)

\* What holds of C27: the same for the circuits with internal nets.
C27_SchurBranch ==
    pc \in {"sweeping", "done"} /\ static_pkg.int_idx # <<>> =>
        \A i \in DOMAIN futures :
            futures[i].done /\ futures[i].entry.s_matrix.some => RowsBelongToPorts(i)

(***************************************************************************)
(* Claims on the legacy sweep                                              *)
(***************************************************************************)
RECURSIVE ProductOfLens(_)
ProductOfLens(ps) ==
    IF ps = <<>> THEN 1 ELSE Len(Head(ps).expr) * ProductOfLens(Tail(ps))

\* C25: the legacy sweep returns one result entry per sweep point:
\* len(result.results) is the number of frequency points times the product
\* of the lengths of the parameter value lists.
C25_OneEntryPerPoint ==
    legacy.pc = "returned" =>
        Len(legacy.results) = legacy.freq.points * ProductOfLens(legacy.param_sweeps)

\* What holds of C25: the same when no two sweep points have the same
\* rounded frequency and the same parameter values; a failed point has its
\* entry then.
C25_DistinctPoints ==
    legacy.pc = "returned"
        /\ (\A i, j \in DOMAIN legacy.sweep_points :
                i # j => <<round9(legacy.sweep_points[i][1]), legacy.sweep_points[i][2]>> #
                         <<round9(legacy.sweep_points[j][1]), legacy.sweep_points[j][2]>>)
        => Len(legacy.results) = legacy.freq.points * ProductOfLens(legacy.param_sweeps)

(***************************************************************************)
(* Claims on the symbolic resolver                                         *)
(***************************************************************************)
\* the parameters key depends on, directly or through others
RECURSIVE DependsOn(_, _, _)
DependsOn(graph, S, fuel) ==
    IF fuel = 0 THEN S
    ELSE DependsOn(graph, S \cup UNION {graph[x] : x \in S}, fuel - 1)
SymbolicHasCycle(graph) ==
    \E key \in DOMAIN graph : key \in DependsOn(graph, graph[key], Cardinality(DOMAIN graph))
HasDependency(graph) == \E key \in DOMAIN graph : graph[key] # {}
AllSymbolsDefined(pd) ==
    \A i \in DOMAIN pd : pd[i].expr.symbols \subseteq Range(SymKeys(pd))
\* every key once, each after the keys it depends on
IsTopologicalOrder(sorted_nodes, graph) ==
    /\ Range(sorted_nodes) = DOMAIN graph
    /\ Len(sorted_nodes) = Cardinality(DOMAIN graph)
    /\ \A i, j \in DOMAIN sorted_nodes :
            sorted_nodes[j] \in graph[sorted_nodes[i]] => j < i
SymbolicTerminal == symbolic.pc \in {"circular", "KeyError", "resolved"}

\* C26: topological_sort returns, for an acyclic graph, every parameter once
\* and after the parameters it depends on, and raises the circular-dependency
\* error only for a graph with a cycle; resolve_all_parameters resolves every
\* acyclic parameter set that has a dependency.
C26_TopologicalSort ==
    SymbolicTerminal =>
        LET graph == symbolic_build_dependency_graph(symbolic.param_dict) IN
        /\ symbolic.pc = "circular" => SymbolicHasCycle(graph)
        /\ symbolic.pc # "circular" => IsTopologicalOrder(symbolic.sorted_nodes, graph)
        /\ (~SymbolicHasCycle(graph) /\ HasDependency(graph)
                /\ AllSymbolsDefined(symbolic.param_dict))
            => symbolic.pc = "resolved"

\* What the code does: the error is raised exactly when some parameter
\* depends on a parameter, cycle or not; without dependencies the keys come
\* back in the order of the dict.
C26_RaisesOnAnyDependency ==
    SymbolicTerminal =>
        LET graph == symbolic_build_dependency_graph(symbolic.param_dict) IN
        /\ symbolic.pc = "circular" <=> HasDependency(graph)
        /\ symbolic.pc # "circular" => symbolic.sorted_nodes = SymKeys(symbolic.param_dict)

(***************************************************************************)
(* Claims on the frontend                                                  *)
(***************************************************************************)
\* the run_simulation threads started whose simulation has not finished:
\* not yet at the end of the finally block
Simulating == {t \in DOMAIN frontend.threads : frontend.threads[t].pc \notin {58, 0}}

\* C29: at most one simulation thread runs at a time: a start issued before
\* the first simulation has finished spawns no second run_simulation thread.
C29_OneSimulationThread == Cardinality(Simulating) <= 1

\* Once a thread has set running, start spawns no other.
C29_NoSpawnWhileRunning ==
    [][frontend.running => Len(frontend'.threads) = Len(frontend.threads)]_vars

\* C30: when run_simulation ends through the "input files unchanged" path,
\* simulation_results holds the results of a successful simulation of exactly
\* those input files: never None with the inputs recorded as simulated.
C30_SkipKeepsResults ==
    \A t \in DOMAIN frontend.threads :
        (frontend.threads[t].skipped /\ frontend.threads[t].pc = 56)
            => /\ frontend.simulation_results # PyNone
               /\ frontend.simulation_results = [of |-> frontend.last_hash]

====
